---- MODULE Spec2Model ----
(***************************************************************************)
(* A model of the appsec resource clients of edgegrid-golang: request     *)
(* validation, URL construction, the call of the shared executor, the     *)
(* status check, the client-side list filters, and the two custom JSON    *)
(* decoders (customDenyID, atomicConditionsName); calls of the list       *)
(* operations running side by side; and Config.FromEnv / Config.FromFile  *)
(* as their tests describe them.                                          *)
(***************************************************************************)
EXTENDS Integers, Sequences, FiniteSets, TLC

VARIABLES
    op,       \* the operation (method of *appsec) of the last call, "" before any
    params,   \* the request value the last call was given
    reqType,  \* the type of that request value
    ctx,      \* the context.Context of that call: "live" or "canceled"
    verr,     \* what params.Validate() returned in that call: the keys of the
              \* filtered validation.Errors map ({} is a nil error)
    trace,    \* the steps the call took, in order
    sent,     \* the *http.Request (and Exec arguments) handed to p.Exec
    exec,     \* what p.Exec answered: transport fault or status, and the body
    rval,     \* the handler's local response value after p.Exec decoded into it
    ret,      \* the pair (response, error) the call returned
    recvID,   \* a customDenyID receiver
    recvName, \* an atomicConditionsName receiver
    dec,      \* the last UnmarshalJSON call: function, input, outcome
    callers,  \* per goroutine calling the client: where its call stands, the
              \* arguments and the answer it was given, and what it got back
    frames,   \* the local variables of the calls in progress
    cfg       \* the last Config.FromEnv / Config.FromFile call on a Config{}

opVars == <<op, params, reqType, ctx, verr, trace, sent, exec, rval, ret>>
decVars == <<recvID, recvName, dec>>
vars == <<op, params, reqType, ctx, verr, trace, sent, exec, rval, ret, recvID, recvName, dec,
          callers, frames, cfg>>

----------------------------------------------------------------------------
(* Bounds of the model. *)

\* integer request fields (config ID, version) range over 0..MaxConfig
MaxConfig == 1
\* integer resource IDs (target ID, reputation profile ID) range over 0..MaxID
MaxID == 2
\* fetched lists hold at most MaxList entries
MaxList == 2
\* JSON arrays given to the decoders hold at most MaxArr elements
MaxArr == 2
\* an atomicConditionsName receiver is decoded into while it holds fewer entries
MaxNames == 2

----------------------------------------------------------------------------
(* Status codes of net/http used by the handlers. *)

StatusOK == 200
StatusCreated == 201
StatusNoContent == 204

MethodGet == "GET"
MethodPost == "POST"
MethodPut == "PUT"
MethodDelete == "DELETE"

----------------------------------------------------------------------------
(* Basic helpers. *)

Digit == <<"0", "1", "2", "3", "4", "5", "6", "7", "8", "9">>

\* strconv.Itoa, and fmt's %d verb
RECURSIVE Itoa(_)
Itoa(n) ==
    IF n < 0 THEN "-" \o Itoa(0 - n)
    ELSE IF n < 10 THEN Digit[n + 1]
    ELSE Itoa(n \div 10) \o Digit[(n % 10) + 1]

\* all sequences over S of length at most n
SeqsUpTo(S, n) == UNION {[1..k -> S] : k \in 0..n}


\* the value of a (possibly nested) struct field
RECURSIVE Field(_, _)
Field(v, path) ==
    IF Len(path) = 1 THEN v[path[1]] ELSE Field(v[path[1]], Tail(path))

\* the name of a struct field, its selectors joined
RECURSIVE FieldName(_)
FieldName(path) ==
    IF Len(path) = 1 THEN path[1] ELSE path[1] \o FieldName(Tail(path))

----------------------------------------------------------------------------
(* Request validation (ozzo-validation as the Validate methods use it). *)

\* one entry of a validation.Errors literal: the map key, the struct field
\* whose value is validated, and that field's Go type
Rule(key, path, type) == [key |-> key, path |-> path, type |-> type]

\* a faulty Required that accepts the empty string
RequiredMut(value, type) ==
    IF type = "int" /\ value = 0 THEN "cannot be blank" ELSE ""

\* validation.Validate(value, validation.Required): the error, "" for nil.
\* Required fails on the zero value of the field's type.
Required(value, type) ==
    IF type = "int"
    THEN (IF value = 0 THEN "cannot be blank" ELSE "")
    ELSE (IF value = "" THEN "cannot be blank" ELSE "")

\* the validation.Errors map a Validate method builds: key -> error
Errors(rules, v) ==
    [k \in {r.key : r \in rules} |->
        LET rule == CHOOSE r \in rules : r.key = k
        IN  Required(Field(v, rule.path), rule.type)]

\* validation.Errors.Filter: drops the nil entries; the result is a nil error
\* when nothing is left, modelled as the empty set of keys
Filter(errs) == {k \in DOMAIN errs : errs[k] # ""}

ConfigIDs == 0..MaxConfig
ResourceIDs == 0..MaxID
PolicyIDs == {"", "pol1", "%zz"}
Groups == {"", "XSS", "SQL"}
DenyIDs == {"", "7", "8", "%zz"}
JsonPayloads == {"{}", "{\"name\":\"n\"}"}

RConfigID == Rule("ConfigID", <<"ConfigID">>, "int")
RVersion == Rule("Version", <<"Version">>, "int")
RConfigVersion == Rule("ConfigVersion", <<"ConfigVersion">>, "int")
RPolicyID == Rule("PolicyID", <<"PolicyID">>, "string")
RID == Rule("ID", <<"ID">>, "string")
RTargetID == Rule("TargetID", <<"TargetID">>, "int")
RReputationProfileId ==
    Rule("ReputationProfileId", <<"ReputationProfileId">>, "int")

\* attack_group.go
GetAttackGroupRequest ==
    [ConfigID : ConfigIDs, Version : ConfigIDs, PolicyID : PolicyIDs,
     Group : Groups]
GetAttackGroupsRequest ==
    [ConfigID : ConfigIDs, Version : ConfigIDs, PolicyID : PolicyIDs,
     Group : Groups]
UpdateAttackGroupRequest ==
    [ConfigID : ConfigIDs, Version : ConfigIDs, PolicyID : PolicyIDs,
     Group : Groups, Action : {"deny"}, JsonPayloadRaw : {"{}"}]

\* custom_deny.go: custom deny
GetCustomDenyRequest ==
    [ConfigID : ConfigIDs, Version : ConfigIDs, ID : DenyIDs]
GetCustomDenyListRequest ==
    [ConfigID : ConfigIDs, Version : ConfigIDs, ID : DenyIDs \ {"%zz"}]
CreateCustomDenyRequest ==
    [ConfigID : ConfigIDs, Version : ConfigIDs, JsonPayloadRaw : JsonPayloads]
UpdateCustomDenyRequest ==
    [ConfigID : ConfigIDs, Version : ConfigIDs, ID : DenyIDs,
     JsonPayloadRaw : JsonPayloads]
RemoveCustomDenyRequest ==
    [ConfigID : ConfigIDs, Version : ConfigIDs, ID : DenyIDs]

\* custom_deny.go: match targets
GetMatchTargetRequest ==
    [ConfigID : ConfigIDs, ConfigVersion : ConfigIDs, TargetID : ResourceIDs]
GetMatchTargetsRequest ==
    [ConfigID : ConfigIDs, ConfigVersion : ConfigIDs, TargetID : ResourceIDs]
CreateMatchTargetRequest ==
    [Type : {"website"}, ConfigID : ConfigIDs, ConfigVersion : ConfigIDs,
     JsonPayloadRaw : JsonPayloads]
UpdateMatchTargetRequest ==
    [ConfigID : ConfigIDs, ConfigVersion : ConfigIDs,
     JsonPayloadRaw : JsonPayloads, TargetID : ResourceIDs]
RemoveMatchTargetRequest ==
    [ConfigID : ConfigIDs, ConfigVersion : ConfigIDs, TargetID : ResourceIDs]

\* custom_deny.go: reputation analysis
GetReputationAnalysisRequest ==
    [ConfigID : ConfigIDs, Version : ConfigIDs, PolicyID : PolicyIDs]
UpdateReputationAnalysisRequest ==
    [ConfigID : ConfigIDs, Version : ConfigIDs, PolicyID : PolicyIDs,
     ForwardToHTTPHeader : BOOLEAN,
     ForwardSharedIPToHTTPHeaderAndSIEM : {FALSE}]
RemoveReputationAnalysisRequest ==
    [ConfigID : ConfigIDs, Version : ConfigIDs, PolicyID : PolicyIDs,
     ForwardToHTTPHeader : BOOLEAN,
     ForwardSharedIPToHTTPHeaderAndSIEM : {FALSE}]

\* reputation_profile.go
GetReputationProfileRequest ==
    [ConfigID : ConfigIDs, ConfigVersion : ConfigIDs,
     ReputationProfileId : ResourceIDs]
GetReputationProfilesRequest ==
    [ConfigID : ConfigIDs, ConfigVersion : ConfigIDs,
     ReputationProfileId : ResourceIDs]
CreateReputationProfileRequest ==
    [ConfigID : ConfigIDs, ConfigVersion : ConfigIDs,
     JsonPayloadRaw : JsonPayloads]
UpdateReputationProfileRequest ==
    [ConfigID : ConfigIDs, ConfigVersion : ConfigIDs,
     ReputationProfileId : ResourceIDs, JsonPayloadRaw : JsonPayloads]
RemoveReputationProfileRequest ==
    [ConfigID : ConfigIDs, ConfigVersion : ConfigIDs,
     ReputationProfileId : ResourceIDs]

\* configuration_clone.go
GetConfigurationCloneRequest ==
    [ConfigID : ConfigIDs, Version : ConfigIDs, ConfigName : {"", "cfg"}]
CreateConfigurationCloneRequest ==
    [Name : {"clone"},
     CreateFrom : [ConfigID : ConfigIDs, Version : ConfigIDs]]

\* version_notes.go
GetVersionNotesRequest == [ConfigID : ConfigIDs, Version : ConfigIDs]
UpdateVersionNotesRequest ==
    [ConfigID : ConfigIDs, Version : ConfigIDs, Notes : {"", "note"}]

\* api_hostname_coverage_overlapping.go
GetApiHostnameCoverageOverlappingRequest ==
    [ConfigID : ConfigIDs, Version : ConfigIDs, Hostname : {"", "example.com"}]

\* the values of a request type
Requests(t) ==
    CASE t = "GetAttackGroupRequest" -> GetAttackGroupRequest
      [] t = "GetAttackGroupsRequest" -> GetAttackGroupsRequest
      [] t = "UpdateAttackGroupRequest" -> UpdateAttackGroupRequest
      [] t = "GetCustomDenyRequest" -> GetCustomDenyRequest
      [] t = "GetCustomDenyListRequest" -> GetCustomDenyListRequest
      [] t = "CreateCustomDenyRequest" -> CreateCustomDenyRequest
      [] t = "UpdateCustomDenyRequest" -> UpdateCustomDenyRequest
      [] t = "RemoveCustomDenyRequest" -> RemoveCustomDenyRequest
      [] t = "GetMatchTargetRequest" -> GetMatchTargetRequest
      [] t = "GetMatchTargetsRequest" -> GetMatchTargetsRequest
      [] t = "CreateMatchTargetRequest" -> CreateMatchTargetRequest
      [] t = "UpdateMatchTargetRequest" -> UpdateMatchTargetRequest
      [] t = "RemoveMatchTargetRequest" -> RemoveMatchTargetRequest
      [] t = "GetReputationAnalysisRequest" -> GetReputationAnalysisRequest
      [] t = "UpdateReputationAnalysisRequest" ->
            UpdateReputationAnalysisRequest
      [] t = "RemoveReputationAnalysisRequest" ->
            RemoveReputationAnalysisRequest
      [] t = "GetReputationProfileRequest" -> GetReputationProfileRequest
      [] t = "GetReputationProfilesRequest" -> GetReputationProfilesRequest
      [] t = "CreateReputationProfileRequest" ->
            CreateReputationProfileRequest
      [] t = "UpdateReputationProfileRequest" ->
            UpdateReputationProfileRequest
      [] t = "RemoveReputationProfileRequest" ->
            RemoveReputationProfileRequest
      [] t = "GetConfigurationCloneRequest" -> GetConfigurationCloneRequest
      [] t = "CreateConfigurationCloneRequest" ->
            CreateConfigurationCloneRequest
      [] t = "GetVersionNotesRequest" -> GetVersionNotesRequest
      [] t = "UpdateVersionNotesRequest" -> UpdateVersionNotesRequest
      [] t = "GetApiHostnameCoverageOverlappingRequest" ->
            GetApiHostnameCoverageOverlappingRequest

\* the validation.Errors entries of a request type's Validate method
Rules(t) ==
    CASE t = "GetAttackGroupRequest" -> {RConfigID, RVersion, RPolicyID}
      [] t = "GetAttackGroupsRequest" -> {RConfigID, RVersion, RPolicyID}
      [] t = "UpdateAttackGroupRequest" -> {RConfigID, RVersion, RPolicyID}
      [] t = "GetCustomDenyRequest" -> {RConfigID, RVersion, RID}
      [] t = "GetCustomDenyListRequest" -> {RConfigID, RVersion}
      [] t = "CreateCustomDenyRequest" -> {RConfigID, RVersion}
      [] t = "UpdateCustomDenyRequest" -> {RConfigID, RVersion, RID}
      [] t = "RemoveCustomDenyRequest" -> {RConfigID, RVersion, RID}
      [] t = "GetMatchTargetRequest" -> {RConfigID, RConfigVersion, RTargetID}
      [] t = "GetMatchTargetsRequest" -> {RConfigID, RConfigVersion}
      [] t = "CreateMatchTargetRequest" -> {RConfigID, RConfigVersion}
      [] t = "UpdateMatchTargetRequest" -> {RConfigID, RConfigVersion, RTargetID}
      [] t = "RemoveMatchTargetRequest" -> {RConfigID, RConfigVersion, RTargetID}
      [] t = "GetReputationAnalysisRequest" ->
            {RConfigID, RVersion, RPolicyID}
      [] t = "UpdateReputationAnalysisRequest" ->
            {RConfigID, RVersion, RPolicyID}
      [] t = "RemoveReputationAnalysisRequest" ->
            {RConfigID, RVersion, RPolicyID}
      [] t = "GetReputationProfileRequest" ->
            {RConfigID, RConfigVersion,
             Rule("RatePolicyID", <<"ReputationProfileId">>, "int")}
      [] t = "GetReputationProfilesRequest" ->
            {RConfigID, RConfigVersion}
      [] t = "CreateReputationProfileRequest" ->
            {RConfigID, RConfigVersion}
      [] t = "UpdateReputationProfileRequest" ->
            {RConfigID, RConfigVersion, RReputationProfileId}
      [] t = "RemoveReputationProfileRequest" ->
            {RConfigID, RConfigVersion, RReputationProfileId}
      [] t = "GetConfigurationCloneRequest" ->
            {RConfigID, RVersion}
      [] t = "CreateConfigurationCloneRequest" ->
            {Rule("CreateFromConfigID", <<"CreateFrom", "ConfigID">>, "int")}
      [] t = "GetVersionNotesRequest" -> {RConfigID, RVersion}
      [] t = "UpdateVersionNotesRequest" -> {RConfigID, RVersion}
      [] t = "GetApiHostnameCoverageOverlappingRequest" ->
            {RConfigID, RVersion}

\* (v <t>) Validate(): the keys of the failed entries; {} is a nil error
Validate(t, v) == Filter(Errors(Rules(t), v))

----------------------------------------------------------------------------
(* JSON texts, encoding/json's decoding into interface{}, and the two      *)
(* custom decoders.                                                        *)

\* a JSON text (the data []byte of UnmarshalJSON), by its kind
JText(kind, str, num, elems) ==
    [kind |-> kind, str |-> str, num |-> num, elems |-> elems]
JInvalid == JText("invalid", "", 0, <<>>)
JNull == JText("null", "", 0, <<>>)
JObject == JText("object", "", 0, <<>>)
JNumber(n) == JText("number", "", n, <<>>)
JString(str) == JText("string", str, 0, <<>>)
JArray(elems) == JText("array", "", 0, elems)

\* the JSON texts the decoders are given
JSONData ==
    {JInvalid, JNull, JText("bool", "", 0, <<>>), JObject}
        \cup {JNumber(n) : n \in {7, 12}}
        \cup {JString(str) : str \in {"7", "a", "b"}}
        \cup {JArray(e) :
                e \in SeqsUpTo({JString("a"), JString("b"), JNumber(7), JNull},
                              MaxArr)}

\* a Go value held in an interface{}, with its reflect.Kind
GoValue(kind, str, num, elems) ==
    [kind |-> kind, str |-> str, num |-> num, elems |-> elems]

\* json.Unmarshal(data, &nums) with nums an interface{}: null gives nil
\* (reflect.Invalid), a number a float64, an array a []interface{}
RECURSIVE JSONValue(_)
JSONValue(data) ==
    CASE data.kind = "null" -> GoValue("Invalid", "", 0, <<>>)
      [] data.kind = "bool" -> GoValue("Bool", "", 0, <<>>)
      [] data.kind = "object" -> GoValue("Map", "", 0, <<>>)
      [] data.kind = "number" -> GoValue("Float64", "", data.num, <<>>)
      [] data.kind = "string" -> GoValue("String", data.str, 0, <<>>)
      [] data.kind = "array" ->
            GoValue("Slice", "", 0,
                    [i \in 1..Len(data.elems) |-> JSONValue(data.elems[i])])

\* a faulty json.Unmarshal call whose error is dropped
JSONUnmarshalMut(data) ==
    [err |-> "", val |-> GoValue("Invalid", "", 0, <<>>)]

JSONUnmarshal(data) ==
    IF data.kind = "invalid"
    THEN [err |-> "invalid character", val |-> GoValue("Invalid", "", 0, <<>>)]
    ELSE [err |-> "", val |-> JSONValue(data)]

\* what an UnmarshalJSON call leaves: the error returned ("" is nil), the
\* receiver, and whether the call panicked instead of returning
DecodeResult(err, c, panicked) ==
    [err |-> err, c |-> c, panicked |-> panicked]

\* a faulty customDenyID decoder that rejects the kinds it does not handle
CustomDenyIDUnmarshalJSONMut(c, data) ==
    LET r == JSONUnmarshal(data)
        nums == r.val
    IN  IF r.err # "" THEN DecodeResult(r.err, c, FALSE)
        ELSE CASE nums.kind = "String" -> DecodeResult("", nums.str, FALSE)
               [] nums.kind = "Int" -> DecodeResult("", Itoa(nums.num), FALSE)
               [] OTHER -> DecodeResult("unsupported type", c, FALSE)
\* func (c *customDenyID) UnmarshalJSON(data []byte) error
CustomDenyIDUnmarshalJSON(c, data) ==
    LET r == JSONUnmarshal(data)
        nums == r.val
    IN  IF r.err # "" THEN DecodeResult(r.err, c, FALSE)
        ELSE CASE nums.kind = "String" -> DecodeResult("", nums.str, FALSE)
               [] nums.kind = "Int" -> DecodeResult("", Itoa(nums.num), FALSE)
               [] OTHER -> DecodeResult("", c, FALSE)

\* reflect.Value.Index(i).Kind() on a []interface{}: the element type's kind
ItemKind(item) == "Interface"

\* the loop over items.Index(i) of atomicConditionsName.UnmarshalJSON, from
\* element i on: item.Interface().(string) panics on a non-string element,
\* with the receiver holding what was appended so far
RECURSIVE AppendItems(_, _, _)
AppendItems(c, items, i) ==
    IF i > Len(items) THEN DecodeResult("", c, FALSE)
    ELSE LET item == items[i]
         IN  CASE ItemKind(item) = "String" ->
                    AppendItems(Append(c, item.str), items, i + 1)
               [] ItemKind(item) = "Interface" ->
                    IF item.kind = "String"
                    THEN AppendItems(Append(c, item.str), items, i + 1)
                    ELSE DecodeResult("", c, TRUE)
               [] OTHER -> AppendItems(c, items, i + 1)

\* a faulty atomicConditionsName decoder whose loop skips the first element
AtomicConditionsNameUnmarshalJSONMut(c, data) ==
    LET r == JSONUnmarshal(data)
        items == r.val
    IN  IF r.err # "" THEN DecodeResult(r.err, c, FALSE)
        ELSE CASE items.kind = "String" ->
                    DecodeResult("", Append(c, items.str), FALSE)
               [] items.kind = "Slice" -> AppendItems(<<>>, items.elems, 2)
               [] OTHER -> DecodeResult("", c, FALSE)
\* func (c *atomicConditionsName) UnmarshalJSON(data []byte) error
AtomicConditionsNameUnmarshalJSON(c, data) ==
    LET r == JSONUnmarshal(data)
        items == r.val
    IN  IF r.err # "" THEN DecodeResult(r.err, c, FALSE)
        ELSE CASE items.kind = "String" ->
                    DecodeResult("", Append(c, items.str), FALSE)
               [] items.kind = "Slice" -> AppendItems(<<>>, items.elems, 1)
               [] OTHER -> DecodeResult("", c, FALSE)

----------------------------------------------------------------------------
(* URLs, errors, and the shared executor.                                  *)

\* a piece of a formatted URL: literal text of the format string, or the
\* text a %d / %s verb was replaced by
Lit(text) == [k |-> "lit", v |-> text]
D(n) == [k |-> "d", v |-> Itoa(n)]
S(str) == [k |-> "s", v |-> str]

\* a URL: the pieces of its path, and of its query (after the "?")
URL(path, query) == [path |-> path, query |-> query]

RECURSIVE Concat(_)
Concat(pieces) ==
    IF pieces = <<>> THEN "" ELSE Head(pieces).v \o Concat(Tail(pieces))

\* url.Parse fails on a path with an invalid escape (the query is not
\* unescaped when parsing)
URLParseFails(u) ==
    \E i \in 1..Len(u.path) : u.path[i].k = "s" /\ u.path[i].v \in {"%zz"}

ErrStructValidation == "ErrStructValidation"
ErrInvalidEscape == "invalid URL escape"
ErrNoSuchHost == "no such host"
ErrContextCanceled == "context canceled"

\* error values: nil, a fmt.Errorf value (its format, the error its %w verb
\* wraps, "" when that operand is nil, and the validation keys its text
\* lists), or the value of p.Error(resp)
NilErr == [type |-> "nil", text |-> "", wraps |-> "", keys |-> {}, status |-> 0]
\* a faulty fmt.Errorf call that always wraps ErrStructValidation
ErrorfMut(text, wrapped, keys) ==
    [type |-> "wrapError", text |-> text, wraps |-> ErrStructValidation,
     keys |-> keys, status |-> 0]
Errorf(text, wrapped, keys) ==
    [type |-> "wrapError", text |-> text, wraps |-> wrapped, keys |-> keys,
     status |-> 0]
\* p.Error(resp): the API error built from the response
Error(status) ==
    [type |-> "apiError", text |-> "", wraps |-> "", keys |-> {},
     status |-> status]

\* errors.Is(err, target), target one of the named errors above
ErrorsIs(err, target) == err.type = "wrapError" /\ err.wraps = target

Contexts == {"live", "canceled"}

\* the optional body argument of p.Exec
NoBody == [kind |-> "none", raw |-> "", struct |-> <<>>]
RawBody(raw) == [kind |-> "raw", raw |-> raw, struct |-> <<>>]
StructBody(v) == [kind |-> "struct", raw |-> "", struct |-> v]

\* response bodies a server sends for each response type (by the type's
\* json tags)
CustomDenyBodies ==
    [name : {"n1", "n2"}, id : {JString("7"), JString("8"), JNumber(7)}]
MatchTargetBodies == [targetId : 1..MaxID, sequence : {0, 1}]
ReputationProfileBodies == [id : 1..MaxID, name : {"p1", "p2"}]

Bodies(out) ==
    CASE out \in {"GetAttackGroupResponse", "UpdateAttackGroupResponse"} ->
            [action : {"deny", "alert"}]
      [] out = "GetAttackGroupsResponse" ->
            [attackGroupActions :
                SeqsUpTo([group : {"XSS", "SQL"}, action : {"deny", "alert"}], MaxList)]
      [] out \in {"GetCustomDenyResponse", "CreateCustomDenyResponse",
                  "UpdateCustomDenyResponse", "RemoveCustomDenyResponse"} ->
            CustomDenyBodies
      [] out = "GetCustomDenyListResponse" -> [customDenyList : SeqsUpTo(CustomDenyBodies, MaxList)]
      [] out \in {"GetMatchTargetResponse", "CreateMatchTargetResponse",
                  "UpdateMatchTargetResponse", "RemoveMatchTargetResponse"} ->
            MatchTargetBodies
      [] out = "GetMatchTargetsResponse" ->
            [matchTargets :
                [apiTargets :
                    SeqsUpTo([targetId : {1}, sequence : {0, 1}]
                                \cup [targetId : {2}, sequence : {0}],
                             MaxList),
                 websiteTargets :
                    SeqsUpTo([targetId : 1..MaxID, sequence : {1},
                              defaultFile : {"a", "b"}], MaxList)]]
      [] out \in {"GetReputationAnalysisResponse",
                  "UpdateReputationAnalysisResponse",
                  "RemoveReputationAnalysisResponse"} ->
            [forwardToHTTPHeader : BOOLEAN]
      [] out \in {"GetReputationProfileResponse",
                  "CreateReputationProfileResponse",
                  "UpdateReputationProfileResponse",
                  "RemoveReputationProfileResponse"} ->
            ReputationProfileBodies
      [] out = "GetReputationProfilesResponse" ->
            [reputationProfiles : SeqsUpTo(ReputationProfileBodies, MaxList)]
      [] out \in {"GetConfigurationCloneResponse",
                  "CreateConfigurationCloneResponse"} ->
            [configId : 1..MaxConfig, version : 1..MaxConfig]
      [] out \in {"GetVersionNotesResponse", "UpdateVersionNotesResponse"} ->
            [notes : {"", "note"}]
      [] out = "GetApiHostnameCoverageOverlappingResponse" ->
            [overLappingList : SeqsUpTo([configId : 1..MaxConfig], 1)]

\* the zero value of a response type (the fields the model keeps)
Zero(out) ==
    CASE out \in {"GetAttackGroupResponse", "UpdateAttackGroupResponse"} ->
            [Action |-> ""]
      [] out = "GetAttackGroupsResponse" -> [AttackGroups |-> <<>>]
      [] out \in {"GetCustomDenyResponse", "CreateCustomDenyResponse",
                  "UpdateCustomDenyResponse"} -> [Name |-> "", ID |-> ""]
      [] out = "RemoveCustomDenyResponse" -> [Empty |-> ""]
      [] out = "GetCustomDenyListResponse" -> [CustomDenyList |-> <<>>]
      [] out \in {"GetMatchTargetResponse", "CreateMatchTargetResponse",
                  "UpdateMatchTargetResponse", "RemoveMatchTargetResponse"} ->
            [TargetID |-> 0, Sequence |-> 0]
      [] out = "GetMatchTargetsResponse" ->
            [MatchTargets |-> [APITargets |-> <<>>, WebsiteTargets |-> <<>>]]
      [] out \in {"GetReputationAnalysisResponse",
                  "UpdateReputationAnalysisResponse",
                  "RemoveReputationAnalysisResponse"} ->
            [ForwardToHTTPHeader |-> FALSE]
      [] out \in {"GetReputationProfileResponse",
                  "CreateReputationProfileResponse",
                  "UpdateReputationProfileResponse",
                  "RemoveReputationProfileResponse"} ->
            [ID |-> 0, Name |-> ""]
      [] out = "GetReputationProfilesResponse" -> [ReputationProfiles |-> <<>>]
      [] out \in {"GetConfigurationCloneResponse",
                  "CreateConfigurationCloneResponse"} ->
            [ConfigID |-> 0, Version |-> 0]
      [] out \in {"GetVersionNotesResponse", "UpdateVersionNotesResponse"} ->
            [Notes |-> ""]
      [] out = "GetApiHostnameCoverageOverlappingResponse" ->
            [OverLappingList |-> <<>>]

\* one entry of a custom deny list, decoded: the id goes through
\* customDenyID.UnmarshalJSON into a zero customDenyID
CustomDenyEntry(e) ==
    [Name |-> e.name, ID |-> CustomDenyIDUnmarshalJSON("", e.id).c]

\* json.Unmarshal(body, out): each field by its json tag; a field tagged
\* "-" keeps its zero value
Unmarshal(out, body) ==
    CASE out \in {"GetAttackGroupResponse", "UpdateAttackGroupResponse"} ->
            [Action |-> body.action]
      [] out = "GetAttackGroupsResponse" ->
            [AttackGroups |->
                [i \in 1..Len(body.attackGroupActions) |->
                    [Group |-> body.attackGroupActions[i].group,
                     Action |-> body.attackGroupActions[i].action]]]
      [] out \in {"GetCustomDenyResponse", "UpdateCustomDenyResponse"} ->
            [Name |-> body.name, ID |-> ""]
      [] out = "CreateCustomDenyResponse" -> CustomDenyEntry(body)
      [] out = "RemoveCustomDenyResponse" -> [Empty |-> ""]
      [] out = "GetCustomDenyListResponse" ->
            [CustomDenyList |->
                [i \in 1..Len(body.customDenyList) |->
                    CustomDenyEntry(body.customDenyList[i])]]
      [] out \in {"GetMatchTargetResponse", "CreateMatchTargetResponse",
                  "UpdateMatchTargetResponse"} ->
            [TargetID |-> body.targetId, Sequence |-> 0]
      [] out = "RemoveMatchTargetResponse" ->
            [TargetID |-> body.targetId, Sequence |-> body.sequence]
      [] out = "GetMatchTargetsResponse" ->
            [MatchTargets |->
                [APITargets |->
                    [i \in 1..Len(body.matchTargets.apiTargets) |->
                        [TargetID |-> body.matchTargets.apiTargets[i].targetId,
                         Sequence |-> body.matchTargets.apiTargets[i].sequence]],
                 WebsiteTargets |->
                    [i \in 1..Len(body.matchTargets.websiteTargets) |->
                        [TargetID |->
                            body.matchTargets.websiteTargets[i].targetId,
                         DefaultFile |->
                            body.matchTargets.websiteTargets[i].defaultFile,
                         Sequence |-> 0]]]]
      [] out \in {"GetReputationAnalysisResponse",
                  "UpdateReputationAnalysisResponse",
                  "RemoveReputationAnalysisResponse"} ->
            [ForwardToHTTPHeader |-> body.forwardToHTTPHeader]
      [] out = "GetReputationProfileResponse" ->
            [ID |-> 0, Name |-> body.name]
      [] out \in {"CreateReputationProfileResponse",
                  "UpdateReputationProfileResponse",
                  "RemoveReputationProfileResponse"} ->
            [ID |-> body.id, Name |-> body.name]
      [] out = "GetReputationProfilesResponse" ->
            [ReputationProfiles |->
                [i \in 1..Len(body.reputationProfiles) |->
                    [ID |-> body.reputationProfiles[i].id,
                     Name |-> body.reputationProfiles[i].name]]]
      [] out \in {"GetConfigurationCloneResponse",
                  "CreateConfigurationCloneResponse"} ->
            [ConfigID |-> body.configId, Version |-> body.version]
      [] out \in {"GetVersionNotesResponse", "UpdateVersionNotesResponse"} ->
            [Notes |-> body.notes]
      [] out = "GetApiHostnameCoverageOverlappingResponse" ->
            [OverLappingList |->
                [i \in 1..Len(body.overLappingList) |->
                    [ConfigID |-> body.overLappingList[i].configId]]]

\* what the transport and the server can answer to a call: a transport
\* fault, or a status with a body. A canceled context makes the transport
\* fail with context.Canceled.
NoAnswer == [fault |-> "", status |-> 0, body |-> <<>>]
Answers(out, c) ==
    IF c = "canceled"
    THEN {[fault |-> ErrContextCanceled, status |-> 0, body |-> <<>>]}
    ELSE {[fault |-> f, status |-> 0, body |-> <<>>] : f \in {ErrNoSuchHost}}
         \cup {[fault |-> "", status |-> st, body |-> <<>>] :
                    st \in {StatusNoContent, 404, 500}}
         \cup {[fault |-> "", status |-> st, body |-> b] :
                    st \in {StatusOK, StatusCreated}, b \in Bodies(out)}

\* a 2xx status other than 204: the statuses whose body Exec decodes
Decodes(status) ==
    status >= StatusOK /\ status < 300 /\ status # StatusNoContent

\* p.Exec(req, out, in...): the error ("" is nil), the status of the
\* response, and the value left in *out (dest is "nil" for a nil out)
Exec(dest, type, answer) ==
    [fault |-> answer.fault,
     status |-> answer.status,
     out |-> IF dest # "nil" /\ answer.fault = "" /\ Decodes(answer.status)
             THEN Unmarshal(type, answer.body)
             ELSE Zero(type)]

----------------------------------------------------------------------------
(* The handlers. Every operation of *appsec follows one sequence of steps; *)
(* a descriptor d holds what differs between them.                         *)

\* the request handed to p.Exec, with Exec's out and in arguments
NoReq == [method |-> "", url |-> URL(<<>>, <<>>), contentType |-> "",
          in |-> NoBody, out |-> "nil"]

\* a faulty handler that calls p.Exec again after a transport error
OutcomeMut(v, t, req, answer, rv, err) ==
    [verr |-> v,
     trace |-> IF answer.fault # "" THEN t \o <<"Exec">> ELSE t,
     sent |-> req, exec |-> answer, rval |-> rv, err |-> err]

\* the outcome of a handler's steps up to the status check
Outcome(v, t, req, answer, rv, err) ==
    [verr |-> v, trace |-> t, sent |-> req, exec |-> answer, rval |-> rv,
     err |-> err]

\* d.op          the method's name
\* d.reqType     the type of params
\* d.validates   whether the handler calls params.Validate()
\* d.logFirst    whether p.Log(ctx) comes before that call
\* d.parses      whether the URL goes through url.Parse before the request
\*               is built
\* d.method, d.url   the arguments of http.NewRequestWithContext
\* d.contentType whether the Content-Type header is set
\* d.in          the body argument of p.Exec
\* d.out         the type whose value p.Exec decodes into, "nil" for none
\* d.rvalType    the type of the handler's result variable
\* d.ok          the statuses that are not turned into p.Error(resp)
\* d.createText, d.execText   the formats of the two fmt.Errorf calls
\* d.execWraps   whether the second wraps the error p.Exec returned
Run(d, p, c, answer) ==
    LET v == IF d.validates THEN Validate(d.reqType, p) ELSE {}
        t1 == IF ~d.validates THEN <<"Log">>
              ELSE IF d.logFirst THEN <<"Log", "Validate">>
              ELSE <<"Validate">>
        t2 == IF d.validates /\ ~d.logFirst THEN t1 \o <<"Log">> ELSE t1
        t3 == IF d.parses THEN t2 \o <<"url.Parse">> ELSE t2
        t4 == t3 \o <<"NewRequest">>
        t5 == (IF d.contentType THEN t4 \o <<"Header.Set">> ELSE t4)
                \o <<"Exec">>
        req == [method |-> d.method, url |-> d.url,
                contentType |->
                    IF d.contentType THEN "application/json" ELSE "",
                in |-> d.in, out |-> d.out]
        resp == Exec(d.out, d.rvalType, answer)
        zero == Zero(d.rvalType)
    IN  IF v # {}
        THEN Outcome(v, t1, NoReq, NoAnswer, zero,
                     Errorf("%w: %s", ErrStructValidation, v))
        ELSE IF d.parses /\ URLParseFails(d.url)
        THEN Outcome(v, t3, NoReq, NoAnswer, zero,
                     Errorf(d.parseText, ErrInvalidEscape, {}))
        ELSE IF URLParseFails(d.url)
        THEN Outcome(v, t4, NoReq, NoAnswer, zero,
                     Errorf(d.createText, ErrInvalidEscape, {}))
        ELSE IF resp.fault # ""
        THEN Outcome(v, t5, req, answer, resp.out,
                     Errorf(d.execText,
                            IF d.execWraps THEN resp.fault ELSE "", {}))
        ELSE IF resp.status \notin d.ok
        THEN Outcome(v, t5 \o <<"Error">>, req, answer, resp.out,
                     Error(resp.status))
        ELSE Outcome(v, t5, req, answer, resp.out, NilErr)

\* a response pointer: nil, or the address of a value
NilResp == [nil |-> TRUE, val |-> <<>>]
Resp(val) == [nil |-> FALSE, val |-> val]

\* a faulty return that hands out the result together with the error
ReturnMut(d, p, c, o, result) ==
    /\ op' = d.op
    /\ params' = p
    /\ reqType' = d.reqType
    /\ ctx' = c
    /\ verr' = o.verr
    /\ trace' = o.trace
    /\ sent' = o.sent
    /\ exec' = o.exec
    /\ rval' = o.rval
    /\ ret' = [resp |-> Resp(result), err |-> o.err]
    /\ UNCHANGED <<decVars, callers, frames, cfg>>

\* the handler returns: (nil, err) when a step failed, (&result, nil)
\* otherwise
Return(d, p, c, o, result) ==
    /\ op' = d.op
    /\ params' = p
    /\ reqType' = d.reqType
    /\ ctx' = c
    /\ verr' = o.verr
    /\ trace' = o.trace
    /\ sent' = o.sent
    /\ exec' = o.exec
    /\ rval' = o.rval
    /\ ret' = IF o.err = NilErr THEN [resp |-> Resp(result), err |-> NilErr]
              ELSE [resp |-> NilResp, err |-> o.err]
    /\ UNCHANGED <<decVars, callers, frames, cfg>>

\* the common shape of a descriptor
Handler(name, type, method, url, in, out, ok) ==
    [op |-> name, reqType |-> type, validates |-> TRUE,
     logFirst |-> FALSE, parses |-> FALSE, method |-> method, url |-> url,
     contentType |-> FALSE, in |-> in, out |-> out, rvalType |-> out,
     ok |-> ok, parseText |-> "",
     createText |-> "failed to create " \o name \o " request: %w",
     execText |-> name \o " request failed: %w", execWraps |-> TRUE]

\* a faulty filter loop that puts each match in front of the earlier ones
RECURSIVE RangeAppendMut(_, _, _, _, _)
RangeAppendMut(list, field, value, i, acc) ==
    IF i > Len(list) THEN acc
    ELSE RangeAppendMut(list, field, value, i + 1,
                        IF list[i][field] = value THEN <<list[i]>> \o acc
                        ELSE acc)

\* for k, val := range list { if val.<field> == value { acc = append(acc,
\* val) } }, from element i on
RECURSIVE RangeAppend(_, _, _, _, _)
RangeAppend(list, field, value, i, acc) ==
    IF i > Len(list) THEN acc
    ELSE RangeAppend(list, field, value, i + 1,
                     IF list[i][field] = value THEN Append(acc, list[i])
                     ELSE acc)

----------------------------------------------------------------------------
(* The client-side filters of the list operations. *)

\* GetAttackGroups: the entries of the given group, all of them without one
GetAttackGroupsFilter(p, rv) ==
    IF p.Group # ""
    THEN [AttackGroups |->
            RangeAppend(rv.AttackGroups, "Group", p.Group, 1, <<>>)]
    ELSE rv

\* GetCustomDenyList: the entries whose decoded ID is the given one
GetCustomDenyListFilter(p, rv) ==
    IF p.ID # ""
    THEN [CustomDenyList |->
            RangeAppend(rv.CustomDenyList, "ID", p.ID, 1, <<>>)]
    ELSE rv

\* GetReputationProfiles: the entries with the given ID
GetReputationProfilesFilter(p, rv) ==
    IF p.ReputationProfileId # 0
    THEN [ReputationProfiles |->
            RangeAppend(rv.ReputationProfiles, "ID", p.ReputationProfileId,
                        1, <<>>)]
    ELSE rv

\* a faulty GetMatchTargets filter that appends the API targets to the
\* website targets
GetMatchTargetsFilterSwap(p, rv) ==
    IF p.TargetID # 0
    THEN [MatchTargets |->
            [APITargets |-> <<>>,
             WebsiteTargets |->
                RangeAppend(rv.MatchTargets.WebsiteTargets
                                \o rv.MatchTargets.APITargets,
                            "TargetID", p.TargetID, 1, <<>>)]]
    ELSE rv

\* a faulty GetMatchTargets filter that compares the IDs without a filter too
GetMatchTargetsFilterMut(p, rv) ==
    [MatchTargets |->
        [APITargets |->
            RangeAppend(rv.MatchTargets.APITargets, "TargetID",
                        p.TargetID, 1, <<>>),
         WebsiteTargets |->
            RangeAppend(rv.MatchTargets.WebsiteTargets, "TargetID",
                        p.TargetID, 1, <<>>)]]

\* GetMatchTargets: the website targets and the API targets with the given ID
GetMatchTargetsFilter(p, rv) ==
    IF p.TargetID # 0
    THEN [MatchTargets |->
            [APITargets |->
                RangeAppend(rv.MatchTargets.APITargets, "TargetID",
                            p.TargetID, 1, <<>>),
             WebsiteTargets |->
                RangeAppend(rv.MatchTargets.WebsiteTargets, "TargetID",
                            p.TargetID, 1, <<>>)]]
    ELSE rv

----------------------------------------------------------------------------
(* The operations: for each method of *appsec its descriptor, and the     *)
(* action of one call: any request value, any context, any answer.        *)

\* a faulty GetAttackGroup that also accepts 201
GetAttackGroupHandlerMut(p) ==
    LET d == Handler("GetAttackGroup", "GetAttackGroupRequest", MethodGet,
      URL(<<Lit("/appsec/v1/configs/"), D(p.ConfigID), Lit("/versions/"), D(p.Version),
          Lit("/security-policies/"), S(p.PolicyID), Lit("/attack-groups/"),
          S(p.Group)>>,
          <<Lit("includeConditionException=true")>>),
      NoBody, "GetAttackGroupResponse", {StatusOK, StatusCreated})
    IN  d
GetAttackGroupHandler(p) ==
    LET d == Handler("GetAttackGroup", "GetAttackGroupRequest", MethodGet,
      URL(<<Lit("/appsec/v1/configs/"), D(p.ConfigID), Lit("/versions/"), D(p.Version),
          Lit("/security-policies/"), S(p.PolicyID), Lit("/attack-groups/"),
          S(p.Group)>>,
          <<Lit("includeConditionException=true")>>),
      NoBody, "GetAttackGroupResponse", {StatusOK})
    IN  d
GetAttackGroup ==
    /\ op = ""
    /\ \E p \in GetAttackGroupRequest, c \in Contexts :
        LET d == GetAttackGroupHandler(p)
        IN  \E a \in Answers(d.rvalType, c) :
                LET o == Run(d, p, c, a)
                IN  Return(d, p, c, o, o.rval)

GetAttackGroupsHandler(p) ==
    LET d == Handler("GetAttackGroups", "GetAttackGroupsRequest", MethodGet,
      URL(<<Lit("/appsec/v1/configs/"), D(p.ConfigID), Lit("/versions/"), D(p.Version),
          Lit("/security-policies/"), S(p.PolicyID), Lit("/attack-groups")>>,
          <<Lit("includeConditionException=true")>>),
      NoBody, "GetAttackGroupsResponse", {StatusOK})
    IN  d
GetAttackGroups ==
    /\ op = ""
    /\ \E p \in GetAttackGroupsRequest, c \in Contexts :
        LET d == GetAttackGroupsHandler(p)
        IN  \E a \in Answers(d.rvalType, c) :
                LET o == Run(d, p, c, a)
                IN  Return(d, p, c, o, GetAttackGroupsFilter(p, o.rval))

UpdateAttackGroupHandler(p) ==
    LET d == Handler("UpdateAttackGroup", "UpdateAttackGroupRequest", MethodPut,
      URL(<<Lit("/appsec/v1/configs/"), D(p.ConfigID), Lit("/versions/"), D(p.Version),
          Lit("/security-policies/"), S(p.PolicyID), Lit("/attack-groups/"),
          S(p.Group), Lit("/action-condition-exception")>>,
          <<>>),
      StructBody(p), "UpdateAttackGroupResponse", {StatusOK, StatusCreated})
    IN  [d EXCEPT !.contentType = TRUE]
UpdateAttackGroup ==
    /\ op = ""
    /\ \E p \in UpdateAttackGroupRequest, c \in Contexts :
        LET d == UpdateAttackGroupHandler(p)
        IN  \E a \in Answers(d.rvalType, c) :
                LET o == Run(d, p, c, a)
                IN  Return(d, p, c, o, o.rval)

GetCustomDenyHandler(p) ==
    LET d == Handler("GetCustomDeny", "GetCustomDenyRequest", MethodGet,
      URL(<<Lit("/appsec/v1/configs/"), D(p.ConfigID), Lit("/versions/"), D(p.Version),
          Lit("/custom-deny/"), S(p.ID)>>,
          <<>>),
      NoBody, "GetCustomDenyResponse", {StatusOK})
    IN  d
GetCustomDeny ==
    /\ op = ""
    /\ \E p \in GetCustomDenyRequest, c \in Contexts :
        LET d == GetCustomDenyHandler(p)
        IN  \E a \in Answers(d.rvalType, c) :
                LET o == Run(d, p, c, a)
                IN  Return(d, p, c, o, o.rval)

GetCustomDenyListHandler(p) ==
    LET d == Handler("GetCustomDenyList", "GetCustomDenyListRequest", MethodGet,
      URL(<<Lit("/appsec/v1/configs/"), D(p.ConfigID), Lit("/versions/"), D(p.Version),
          Lit("/custom-deny")>>,
          <<>>),
      NoBody, "GetCustomDenyListResponse", {StatusOK})
    IN  [d EXCEPT !.createText = "failed to create GetlustomDenyList request: %w"]
GetCustomDenyList ==
    /\ op = ""
    /\ \E p \in GetCustomDenyListRequest, c \in Contexts :
        LET d == GetCustomDenyListHandler(p)
        IN  \E a \in Answers(d.rvalType, c) :
                LET o == Run(d, p, c, a)
                IN  Return(d, p, c, o, GetCustomDenyListFilter(p, o.rval))

\* a faulty UpdateCustomDeny that hands the request struct to p.Exec
UpdateCustomDenyHandlerMut(p) ==
    LET d == Handler("UpdateCustomDeny", "UpdateCustomDenyRequest", MethodPut,
      URL(<<Lit("/appsec/v1/configs/"), D(p.ConfigID), Lit("/versions/"), D(p.Version),
          Lit("/custom-deny/"), S(p.ID)>>,
          <<>>),
      StructBody(p), "UpdateCustomDenyResponse", {StatusOK, StatusCreated})
    IN  [d EXCEPT !.contentType = TRUE]
UpdateCustomDenyHandler(p) ==
    LET d == Handler("UpdateCustomDeny", "UpdateCustomDenyRequest", MethodPut,
      URL(<<Lit("/appsec/v1/configs/"), D(p.ConfigID), Lit("/versions/"), D(p.Version),
          Lit("/custom-deny/"), S(p.ID)>>,
          <<>>),
      RawBody(p.JsonPayloadRaw), "UpdateCustomDenyResponse", {StatusOK, StatusCreated})
    IN  [d EXCEPT !.contentType = TRUE]
UpdateCustomDeny ==
    /\ op = ""
    /\ \E p \in UpdateCustomDenyRequest, c \in Contexts :
        LET d == UpdateCustomDenyHandler(p)
        IN  \E a \in Answers(d.rvalType, c) :
                LET o == Run(d, p, c, a)
                IN  Return(d, p, c, o, o.rval)

CreateCustomDenyHandler(p) ==
    LET d == Handler("CreateCustomDeny", "CreateCustomDenyRequest", MethodPost,
      URL(<<Lit("/appsec/v1/configs/"), D(p.ConfigID), Lit("/versions/"), D(p.Version),
          Lit("/custom-deny")>>,
          <<>>),
      RawBody(p.JsonPayloadRaw), "CreateCustomDenyResponse", {StatusOK, StatusCreated})
    IN  [d EXCEPT !.contentType = TRUE]
CreateCustomDeny ==
    /\ op = ""
    /\ \E p \in CreateCustomDenyRequest, c \in Contexts :
        LET d == CreateCustomDenyHandler(p)
        IN  \E a \in Answers(d.rvalType, c) :
                LET o == Run(d, p, c, a)
                IN  Return(d, p, c, o, o.rval)

RemoveCustomDenyHandler(p) ==
    LET d == Handler("RemoveCustomDeny", "RemoveCustomDenyRequest", MethodDelete,
      URL(<<Lit("/appsec/v1/configs/"), D(p.ConfigID), Lit("/versions/"), D(p.Version),
          Lit("/custom-deny/"), S(p.ID)>>,
          <<>>),
      NoBody, "RemoveCustomDenyResponse", {StatusNoContent, StatusOK})
    IN  [d EXCEPT !.parses = TRUE,
                  !.parseText = "failed to parse url: %w"]
RemoveCustomDeny ==
    /\ op = ""
    /\ \E p \in RemoveCustomDenyRequest, c \in Contexts :
        LET d == RemoveCustomDenyHandler(p)
        IN  \E a \in Answers(d.rvalType, c) :
                LET o == Run(d, p, c, a)
                IN  Return(d, p, c, o, o.rval)

GetMatchTargetHandler(p) ==
    LET d == Handler("GetMatchTarget", "GetMatchTargetRequest", MethodGet,
      URL(<<Lit("/appsec/v1/configs/"), D(p.ConfigID), Lit("/versions/"), D(p.ConfigVersion),
          Lit("/match-targets/"), D(p.TargetID)>>,
          <<Lit("includeChildObjectName=true")>>),
      NoBody, "GetMatchTargetResponse", {StatusOK})
    IN  [d EXCEPT !.logFirst = TRUE]
GetMatchTarget ==
    /\ op = ""
    /\ \E p \in GetMatchTargetRequest, c \in Contexts :
        LET d == GetMatchTargetHandler(p)
        IN  \E a \in Answers(d.rvalType, c) :
                LET o == Run(d, p, c, a)
                IN  Return(d, p, c, o, o.rval)

GetMatchTargetsHandler(p) ==
    LET d == Handler("GetMatchTargets", "GetMatchTargetsRequest", MethodGet,
      URL(<<Lit("/appsec/v1/configs/"), D(p.ConfigID), Lit("/versions/"), D(p.ConfigVersion),
          Lit("/match-targets")>>,
          <<>>),
      NoBody, "GetMatchTargetsResponse", {StatusOK})
    IN  [d EXCEPT !.logFirst = TRUE]
GetMatchTargets ==
    /\ op = ""
    /\ \E p \in GetMatchTargetsRequest, c \in Contexts :
        LET d == GetMatchTargetsHandler(p)
        IN  \E a \in Answers(d.rvalType, c) :
                LET o == Run(d, p, c, a)
                IN  Return(d, p, c, o, GetMatchTargetsFilter(p, o.rval))

UpdateMatchTargetHandler(p) ==
    LET d == Handler("UpdateMatchTarget", "UpdateMatchTargetRequest", MethodPut,
      URL(<<Lit("/appsec/v1/configs/"), D(p.ConfigID), Lit("/versions/"), D(p.ConfigVersion),
          Lit("/match-targets/"), D(p.TargetID)>>,
          <<>>),
      RawBody(p.JsonPayloadRaw), "UpdateMatchTargetResponse", {StatusOK, StatusCreated})
    IN  [d EXCEPT !.logFirst = TRUE,
                  !.contentType = TRUE]
UpdateMatchTarget ==
    /\ op = ""
    /\ \E p \in UpdateMatchTargetRequest, c \in Contexts :
        LET d == UpdateMatchTargetHandler(p)
        IN  \E a \in Answers(d.rvalType, c) :
                LET o == Run(d, p, c, a)
                IN  Return(d, p, c, o, o.rval)

CreateMatchTargetHandler(p) ==
    LET d == Handler("CreateMatchTarget", "CreateMatchTargetRequest", MethodPost,
      URL(<<Lit("/appsec/v1/configs/"), D(p.ConfigID), Lit("/versions/"), D(p.ConfigVersion),
          Lit("/match-targets")>>,
          <<>>),
      RawBody(p.JsonPayloadRaw), "CreateMatchTargetResponse", {StatusCreated, StatusOK})
    IN  [d EXCEPT !.logFirst = TRUE,
                  !.contentType = TRUE]
CreateMatchTarget ==
    /\ op = ""
    /\ \E p \in CreateMatchTargetRequest, c \in Contexts :
        LET d == CreateMatchTargetHandler(p)
        IN  \E a \in Answers(d.rvalType, c) :
                LET o == Run(d, p, c, a)
                IN  Return(d, p, c, o, o.rval)

RemoveMatchTargetHandler(p) ==
    LET d == Handler("RemoveMatchTarget", "RemoveMatchTargetRequest", MethodDelete,
      URL(<<Lit("/appsec/v1/configs/"), D(p.ConfigID), Lit("/versions/"), D(p.ConfigVersion),
          Lit("/match-targets/"), D(p.TargetID)>>,
          <<>>),
      NoBody, "RemoveMatchTargetResponse", {StatusNoContent, StatusOK})
    IN  [d EXCEPT !.logFirst = TRUE,
                  !.out = "nil",
                  !.execWraps = FALSE]
RemoveMatchTarget ==
    /\ op = ""
    /\ \E p \in RemoveMatchTargetRequest, c \in Contexts :
        LET d == RemoveMatchTargetHandler(p)
        IN  \E a \in Answers(d.rvalType, c) :
                LET o == Run(d, p, c, a)
                IN  Return(d, p, c, o, o.rval)

GetReputationAnalysisHandler(p) ==
    LET d == Handler("GetReputationAnalysis", "GetReputationAnalysisRequest", MethodGet,
      URL(<<Lit("/appsec/v1/configs/"), D(p.ConfigID), Lit("/versions/"), D(p.Version),
          Lit("/security-policies/"), S(p.PolicyID), Lit("/reputation-analysis")>>,
          <<>>),
      NoBody, "GetReputationAnalysisResponse", {StatusOK})
    IN  d
GetReputationAnalysis ==
    /\ op = ""
    /\ \E p \in GetReputationAnalysisRequest, c \in Contexts :
        LET d == GetReputationAnalysisHandler(p)
        IN  \E a \in Answers(d.rvalType, c) :
                LET o == Run(d, p, c, a)
                IN  Return(d, p, c, o, o.rval)

UpdateReputationAnalysisHandler(p) ==
    LET d == Handler("UpdateReputationAnalysis", "UpdateReputationAnalysisRequest", MethodPut,
      URL(<<Lit("/appsec/v1/configs/"), D(p.ConfigID), Lit("/versions/"), D(p.Version),
          Lit("/security-policies/"), S(p.PolicyID), Lit("/reputation-analysis")>>,
          <<>>),
      StructBody(p), "UpdateReputationAnalysisResponse", {StatusOK, StatusCreated})
    IN  d
UpdateReputationAnalysis ==
    /\ op = ""
    /\ \E p \in UpdateReputationAnalysisRequest, c \in Contexts :
        LET d == UpdateReputationAnalysisHandler(p)
        IN  \E a \in Answers(d.rvalType, c) :
                LET o == Run(d, p, c, a)
                IN  Return(d, p, c, o, o.rval)

RemoveReputationAnalysisHandler(p) ==
    LET d == Handler("RemoveReputationAnalysis", "RemoveReputationAnalysisRequest", MethodPut,
      URL(<<Lit("/appsec/v1/configs/"), D(p.ConfigID), Lit("/versions/"), D(p.Version),
          Lit("/security-policies/"), S(p.PolicyID), Lit("/reputation-analysis")>>,
          <<>>),
      StructBody(p), "RemoveReputationAnalysisResponse", {StatusOK, StatusCreated})
    IN  [d EXCEPT !.validates = FALSE]
RemoveReputationAnalysis ==
    /\ op = ""
    /\ \E p \in RemoveReputationAnalysisRequest, c \in Contexts :
        LET d == RemoveReputationAnalysisHandler(p)
        IN  \E a \in Answers(d.rvalType, c) :
                LET o == Run(d, p, c, a)
                IN  Return(d, p, c, o, o.rval)

GetReputationProfileHandler(p) ==
    LET d == Handler("GetReputationProfile", "GetReputationProfileRequest", MethodGet,
      URL(<<Lit("/appsec/v1/configs/"), D(p.ConfigID), Lit("/versions/"), D(p.ConfigVersion),
          Lit("/reputation-profiles/"), D(p.ReputationProfileId)>>,
          <<>>),
      NoBody, "GetReputationProfileResponse", {StatusOK})
    IN  [d EXCEPT !.createText = "failed to create getreputationprofile request: %w",
                  !.execText = "getproperties request failed: %w"]
GetReputationProfile ==
    /\ op = ""
    /\ \E p \in GetReputationProfileRequest, c \in Contexts :
        LET d == GetReputationProfileHandler(p)
        IN  \E a \in Answers(d.rvalType, c) :
                LET o == Run(d, p, c, a)
                IN  Return(d, p, c, o, o.rval)

GetReputationProfilesHandler(p) ==
    LET d == Handler("GetReputationProfiles", "GetReputationProfilesRequest", MethodGet,
      URL(<<Lit("/appsec/v1/configs/"), D(p.ConfigID), Lit("/versions/"), D(p.ConfigVersion),
          Lit("/reputation-profiles")>>,
          <<>>),
      NoBody, "GetReputationProfilesResponse", {StatusOK})
    IN  [d EXCEPT !.createText = "failed to create getreputationprofiles request: %w",
                  !.execText = "getreputationprofiles request failed: %w"]
GetReputationProfiles ==
    /\ op = ""
    /\ \E p \in GetReputationProfilesRequest, c \in Contexts :
        LET d == GetReputationProfilesHandler(p)
        IN  \E a \in Answers(d.rvalType, c) :
                LET o == Run(d, p, c, a)
                IN  Return(d, p, c, o, GetReputationProfilesFilter(p, o.rval))

UpdateReputationProfileHandler(p) ==
    LET d == Handler("UpdateReputationProfile", "UpdateReputationProfileRequest", MethodPut,
      URL(<<Lit("/appsec/v1/configs/"), D(p.ConfigID), Lit("/versions/"), D(p.ConfigVersion),
          Lit("/reputation-profiles/"), D(p.ReputationProfileId)>>,
          <<>>),
      RawBody(p.JsonPayloadRaw), "UpdateReputationProfileResponse", {StatusOK, StatusCreated})
    IN  [d EXCEPT !.contentType = TRUE,
                  !.createText = "failed to create create ReputationProfilerequest: %w",
                  !.execText = "create ReputationProfile request failed: %w"]
UpdateReputationProfile ==
    /\ op = ""
    /\ \E p \in UpdateReputationProfileRequest, c \in Contexts :
        LET d == UpdateReputationProfileHandler(p)
        IN  \E a \in Answers(d.rvalType, c) :
                LET o == Run(d, p, c, a)
                IN  Return(d, p, c, o, o.rval)

CreateReputationProfileHandler(p) ==
    LET d == Handler("CreateReputationProfile", "CreateReputationProfileRequest", MethodPost,
      URL(<<Lit("/appsec/v1/configs/"), D(p.ConfigID), Lit("/versions/"), D(p.ConfigVersion),
          Lit("/reputation-profiles")>>,
          <<>>),
      RawBody(p.JsonPayloadRaw), "CreateReputationProfileResponse", {StatusOK, StatusCreated})
    IN  [d EXCEPT !.contentType = TRUE,
                  !.createText = "failed to create create reputationprofile request: %w",
                  !.execText = "create reputationprofilerequest failed: %w"]
CreateReputationProfile ==
    /\ op = ""
    /\ \E p \in CreateReputationProfileRequest, c \in Contexts :
        LET d == CreateReputationProfileHandler(p)
        IN  \E a \in Answers(d.rvalType, c) :
                LET o == Run(d, p, c, a)
                IN  Return(d, p, c, o, o.rval)

RemoveReputationProfileHandler(p) ==
    LET d == Handler("RemoveReputationProfile", "RemoveReputationProfileRequest", MethodDelete,
      URL(<<Lit("/appsec/v1/configs/"), D(p.ConfigID), Lit("/versions/"), D(p.ConfigVersion),
          Lit("/reputation-profiles/"), D(p.ReputationProfileId)>>,
          <<>>),
      NoBody, "RemoveReputationProfileResponse", {StatusNoContent, StatusOK})
    IN  [d EXCEPT !.parses = TRUE,
                  !.parseText = "failed parse url: %w",
                  !.createText = "failed to create delreputationprofile request: %w",
                  !.execText = "delreputationprofile request failed: %w"]
RemoveReputationProfile ==
    /\ op = ""
    /\ \E p \in RemoveReputationProfileRequest, c \in Contexts :
        LET d == RemoveReputationProfileHandler(p)
        IN  \E a \in Answers(d.rvalType, c) :
                LET o == Run(d, p, c, a)
                IN  Return(d, p, c, o, o.rval)

GetConfigurationCloneHandler(p) ==
    LET d == Handler("GetConfigurationClone", "GetConfigurationCloneRequest", MethodGet,
      URL(<<Lit("/appsec/v1/configs/"), D(p.ConfigID), Lit("/versions/"), D(p.Version)>>,
          <<>>),
      NoBody, "GetConfigurationCloneResponse", {StatusOK})
    IN  [d EXCEPT !.createText = "failed to create getconfigurationclone request: %w",
                  !.execText = "getproperties request failed: %w"]
GetConfigurationClone ==
    /\ op = ""
    /\ \E p \in GetConfigurationCloneRequest, c \in Contexts :
        LET d == GetConfigurationCloneHandler(p)
        IN  \E a \in Answers(d.rvalType, c) :
                LET o == Run(d, p, c, a)
                IN  Return(d, p, c, o, o.rval)

CreateConfigurationCloneHandler(p) ==
    LET d == Handler("CreateConfigurationClone", "CreateConfigurationCloneRequest", MethodPost,
      URL(<<Lit("/appsec/v1/configs/")>>,
          <<>>),
      StructBody(p), "CreateConfigurationCloneResponse", {StatusOK, StatusCreated})
    IN  [d EXCEPT !.createText = "failed to create create configurationclone request: %w",
                  !.execText = "create configurationclonerequest failed: %w"]
CreateConfigurationClone ==
    /\ op = ""
    /\ \E p \in CreateConfigurationCloneRequest, c \in Contexts :
        LET d == CreateConfigurationCloneHandler(p)
        IN  \E a \in Answers(d.rvalType, c) :
                LET o == Run(d, p, c, a)
                IN  Return(d, p, c, o, o.rval)

GetVersionNotesHandler(p) ==
    LET d == Handler("GetVersionNotes", "GetVersionNotesRequest", MethodGet,
      URL(<<Lit("/appsec/v1/configs/"), D(p.ConfigID), Lit("/versions/"), D(p.Version),
          Lit("/version-notes")>>,
          <<>>),
      NoBody, "GetVersionNotesResponse", {StatusOK})
    IN  d
GetVersionNotes ==
    /\ op = ""
    /\ \E p \in GetVersionNotesRequest, c \in Contexts :
        LET d == GetVersionNotesHandler(p)
        IN  \E a \in Answers(d.rvalType, c) :
                LET o == Run(d, p, c, a)
                IN  Return(d, p, c, o, o.rval)

\* a faulty UpdateVersionNotes that turns a 201 into p.Error(resp)
UpdateVersionNotesHandlerMut(p) ==
    LET d == Handler("UpdateVersionNotes", "UpdateVersionNotesRequest", MethodPut,
      URL(<<Lit("/appsec/v1/configs/"), D(p.ConfigID), Lit("/versions/"), D(p.Version),
          Lit("/version-notes")>>,
          <<>>),
      StructBody(p), "UpdateVersionNotesResponse", {StatusOK})
    IN  d
UpdateVersionNotesHandler(p) ==
    LET d == Handler("UpdateVersionNotes", "UpdateVersionNotesRequest", MethodPut,
      URL(<<Lit("/appsec/v1/configs/"), D(p.ConfigID), Lit("/versions/"), D(p.Version),
          Lit("/version-notes")>>,
          <<>>),
      StructBody(p), "UpdateVersionNotesResponse", {StatusOK, StatusCreated})
    IN  d
UpdateVersionNotes ==
    /\ op = ""
    /\ \E p \in UpdateVersionNotesRequest, c \in Contexts :
        LET d == UpdateVersionNotesHandler(p)
        IN  \E a \in Answers(d.rvalType, c) :
                LET o == Run(d, p, c, a)
                IN  Return(d, p, c, o, o.rval)

GetApiHostnameCoverageOverlappingHandler(p) ==
    LET d == Handler("GetApiHostnameCoverageOverlapping", "GetApiHostnameCoverageOverlappingRequest", MethodGet,
      URL(<<Lit("/appsec/v1/configs/"), D(p.ConfigID), Lit("/versions/"), D(p.Version),
          Lit("/hostname-coverage/overlapping")>>,
          <<Lit("hostname="), S(p.Hostname)>>),
      NoBody, "GetApiHostnameCoverageOverlappingResponse", {StatusOK})
    IN  d
GetApiHostnameCoverageOverlapping ==
    /\ op = ""
    /\ \E p \in GetApiHostnameCoverageOverlappingRequest, c \in Contexts :
        LET d == GetApiHostnameCoverageOverlappingHandler(p)
        IN  \E a \in Answers(d.rvalType, c) :
                LET o == Run(d, p, c, a)
                IN  Return(d, p, c, o, o.rval)

\* a caller validates a request value itself: (v <type>) Validate() returns
\* the filtered validation.Errors, a nil error when it is empty
ValidateRequest ==
    /\ op = ""
    /\ \E t \in
        {"GetAttackGroupRequest", "GetAttackGroupsRequest",
        "UpdateAttackGroupRequest", "GetCustomDenyRequest",
        "GetCustomDenyListRequest", "CreateCustomDenyRequest",
        "UpdateCustomDenyRequest", "RemoveCustomDenyRequest",
        "GetMatchTargetRequest", "GetMatchTargetsRequest",
        "CreateMatchTargetRequest", "UpdateMatchTargetRequest",
        "RemoveMatchTargetRequest", "GetReputationAnalysisRequest",
        "UpdateReputationAnalysisRequest", "RemoveReputationAnalysisRequest",
        "GetReputationProfileRequest", "GetReputationProfilesRequest",
        "CreateReputationProfileRequest", "UpdateReputationProfileRequest",
        "RemoveReputationProfileRequest", "GetConfigurationCloneRequest",
        "CreateConfigurationCloneRequest", "GetVersionNotesRequest",
        "UpdateVersionNotesRequest", "GetApiHostnameCoverageOverlappingRequest"} :
        \E p \in Requests(t) :
            LET v == Validate(t, p)
            IN  /\ op' = "Validate"
                /\ params' = p
                /\ reqType' = t
                /\ ctx' = "live"
                /\ verr' = v
                /\ trace' = <<"Validate">>
                /\ sent' = NoReq
                /\ exec' = NoAnswer
                /\ rval' = <<>>
                /\ ret' = [resp |-> NilResp,
                           err |-> IF v = {} THEN NilErr
                                   ELSE [type |-> "validation.Errors",
                                         text |-> "", wraps |-> "",
                                         keys |-> v, status |-> 0]]
                /\ UNCHANGED <<decVars, callers, frames, cfg>>

\* the call has returned and its locals are gone: the client keeps nothing
\* of it, and the next call starts from the same client
NextCall ==
    /\ op # ""
    /\ op' = ""
    /\ params' = <<>>
    /\ reqType' = ""
    /\ ctx' = "live"
    /\ verr' = {}
    /\ trace' = <<>>
    /\ sent' = NoReq
    /\ exec' = NoAnswer
    /\ rval' = <<>>
    /\ ret' = [resp |-> NilResp, err |-> NilErr]
    /\ UNCHANGED <<decVars, callers, frames, cfg>>

----------------------------------------------------------------------------
(* The decoders, called on a receiver that keeps its value between calls. *)

NoDec == [fn |-> "", data |-> JNull, beforeID |-> "", beforeName |-> <<>>,
          err |-> "", panicked |-> FALSE]

\* var c customDenyID; var n atomicConditionsName: fresh zero values
NewReceivers ==
    /\ dec.fn # ""
    /\ recvID' = ""
    /\ recvName' = <<>>
    /\ dec' = NoDec
    /\ UNCHANGED <<opVars, callers, frames, cfg>>

UnmarshalCustomDenyID ==
    \E data \in JSONData :
        LET r == CustomDenyIDUnmarshalJSON(recvID, data)
        IN  /\ recvID' = r.c
            /\ dec' = [fn |-> "customDenyID", data |-> data,
                       beforeID |-> recvID, beforeName |-> recvName,
                       err |-> r.err, panicked |-> r.panicked]
            /\ UNCHANGED <<recvName, opVars, callers, frames, cfg>>

UnmarshalAtomicConditionsName ==
    /\ Len(recvName) < MaxNames
    /\ \E data \in JSONData :
        LET r == AtomicConditionsNameUnmarshalJSON(recvName, data)
        IN  /\ recvName' = r.c
            /\ dec' = [fn |-> "atomicConditionsName", data |-> data,
                       beforeID |-> recvID, beforeName |-> recvName,
                       err |-> r.err, panicked |-> r.panicked]
            /\ UNCHANGED <<recvID, opVars, callers, frames, cfg>>

----------------------------------------------------------------------------
(* Calls running side by side. Goroutines call the list operations on one *)
(* client; each call runs in steps (validation and the request, the       *)
(* answer of p.Exec, the iterations of the filter loops, the return), and *)
(* the steps of different calls interleave in any order. p.Log, p.Exec    *)
(* and p.Error belong to the session and are taken to serve each call by  *)
(* itself.                                                                *)

\* the goroutines that call the client
Callers == {"a", "b"}

\* a goroutine that is in no call
Idle == [pc |-> "idle", op |-> "", params |-> <<>>, answer |-> NoAnswer,
         during |-> {}, ret |-> [resp |-> NilResp, err |-> NilErr]]

\* a faulty declaration that keeps the locals of an operation in one place
\* for all its calls
FrameMut(c, name) == <<"a", name>>

\* var rval, var rvalfiltered: the locals of an operation live in the
\* frame of the call
Frame(c, name) == <<c, name>>

\* a list operation: its descriptor, whether it filters, and its loops
\* (the list each ranges over and the field it compares)
ListOp(name, p) ==
    IF name = "GetAttackGroups"
    THEN [d |-> GetAttackGroupsHandler(p), filters |-> p.Group # "",
          loops |-> <<[list |-> <<"AttackGroups">>, field |-> "Group",
                       value |-> p.Group]>>]
    ELSE [d |-> GetMatchTargetsHandler(p), filters |-> p.TargetID # 0,
          loops |-> <<[list |-> <<"MatchTargets", "WebsiteTargets">>,
                       field |-> "TargetID", value |-> p.TargetID],
                      [list |-> <<"MatchTargets", "APITargets">>,
                       field |-> "TargetID", value |-> p.TargetID]>>]

\* var rval <Op>Response; var rvalfiltered <Op>Response: zero values
Locals(name) ==
    LET zero == Zero(ListOp(name, [Group |-> "", TargetID |-> 0,
                                   ConfigID |-> 0, Version |-> 0,
                                   ConfigVersion |-> 0,
                                   PolicyID |-> ""]).d.rvalType)
    IN  [rval |-> zero, rvalfiltered |-> zero, loop |-> 1, k |-> 1]

\* the calls in progress other than c's
InProgress(c) ==
    {x \in Callers \ {c} : callers[x].pc \notin {"idle", "returned"}}

\* the call starts: params.Validate(), the locals, the request
Invoke(c) ==
    /\ callers[c].pc = "idle"
    /\ \E name \in {"GetAttackGroups", "GetMatchTargets"} :
        \E p \in IF name = "GetAttackGroups"
                 THEN [ConfigID : {0, 1}, Version : {1}, PolicyID : {"pol1"},
                       Group : {"", "XSS"}] \cap GetAttackGroupsRequest
                 ELSE [ConfigID : {0, 1}, ConfigVersion : {1},
                       TargetID : {0, 1}] \cap GetMatchTargetsRequest :
            LET d == ListOp(name, p).d
                v == Validate(d.reqType, p)
                call == [Idle EXCEPT !.op = name, !.params = p,
                                     !.during = InProgress(c)]
            IN  /\ v # {} => p.ConfigID = 0 /\ ListOp(name, p).filters
                /\ callers' =
                    [callers EXCEPT ![c] =
                        IF v # {}
                        THEN [call EXCEPT
                                !.pc = "returned",
                                !.ret = [resp |-> NilResp,
                                         err |-> Errorf("%w: %s",
                                                    ErrStructValidation, v)]]
                        ELSE [call EXCEPT !.pc = "exec"]]
                /\ frames' =
                    IF v # {} THEN frames
                    ELSE [frames EXCEPT ![Frame(c, name)] = Locals(name)]
    /\ UNCHANGED <<opVars, decVars, cfg>>

\* p.Exec returns with one of the answers a server gives (a transport
\* fault, a 404, a 200 with a list): the answer is decoded into rval, and
\* an error or a status other than 200 ends the call and its locals
Answered(c) ==
    /\ callers[c].pc = "exec"
    /\ LET call == callers[c]
           l == ListOp(call.op, call.params)
           entries == [group : {"XSS", "SQL"}, action : {"deny"}]
           targets == [targetId : {1, 2}, sequence : {0},
                       defaultFile : {"a"}]
           bodies ==
                IF call.op = "GetAttackGroups"
                THEN [attackGroupActions : SeqsUpTo(entries, MaxList)]
                ELSE [matchTargets :
                        [websiteTargets : SeqsUpTo(targets, MaxList),
                         apiTargets : {<<>>, <<[targetId |-> 1,
                                                sequence |-> 0]>>}]]
       IN  \E a \in {[fault |-> ErrNoSuchHost, status |-> 0, body |-> <<>>],
                     [fault |-> "", status |-> 404, body |-> <<>>]}
                        \cup {[fault |-> "", status |-> StatusOK, body |-> b] :
                                b \in bodies} :
            LET o == Run(l.d, call.params, "live", a)
            IN  /\ frames' =
                    [frames EXCEPT ![Frame(c, call.op)] =
                        IF o.err # NilErr THEN Locals(call.op)
                        ELSE [@ EXCEPT !.rval = o.rval]]
                /\ callers' =
                    [callers EXCEPT ![c] =
                        [call EXCEPT
                            !.answer = a,
                            !.during = @ \cup InProgress(c),
                            !.pc = IF o.err # NilErr THEN "returned"
                                   ELSE IF l.filters THEN "range"
                                   ELSE "assign",
                            !.ret = [resp |-> NilResp, err |-> o.err]]]
    /\ UNCHANGED <<opVars, decVars, cfg>>

\* one iteration of a filter loop, or the end of the loop: for _, val :=
\* range list { if val.<field> == value { rvalfiltered.<list> =
\* append(rvalfiltered.<list>, val) } }
Range(c) ==
    /\ callers[c].pc = "range"
    /\ LET call == callers[c]
           loops == ListOp(call.op, call.params).loops
           f == frames[Frame(c, call.op)]
           loop == loops[f.loop]
           list == IF Len(loop.list) = 1 THEN f.rval[loop.list[1]]
                   ELSE f.rval[loop.list[1]][loop.list[2]]
           val == list[f.k]
           appended ==
                IF Len(loop.list) = 1
                THEN [f.rvalfiltered EXCEPT
                        ![loop.list[1]] = Append(@, val)]
                ELSE [f.rvalfiltered EXCEPT
                        ![loop.list[1]][loop.list[2]] = Append(@, val)]
       IN  /\ frames' =
                [frames EXCEPT ![Frame(c, call.op)] =
                    IF f.k > Len(list) /\ f.loop < Len(loops)
                    THEN [f EXCEPT !.loop = @ + 1, !.k = 1]
                    ELSE IF f.k > Len(list) THEN f
                    ELSE IF val[loop.field] = loop.value
                    THEN [f EXCEPT !.rvalfiltered = appended, !.k = @ + 1]
                    ELSE [f EXCEPT !.k = @ + 1]]
           /\ callers' =
                [callers EXCEPT ![c] =
                    [call EXCEPT
                        !.during = @ \cup InProgress(c),
                        !.pc = IF f.k > Len(list) /\ f.loop >= Len(loops)
                               THEN "return" ELSE "range"]]
    /\ UNCHANGED <<opVars, decVars, cfg>>

\* rvalfiltered = rval
Assign(c) ==
    /\ callers[c].pc = "assign"
    /\ frames' = [frames EXCEPT ![Frame(c, callers[c].op)].rvalfiltered =
                                    frames[Frame(c, callers[c].op)].rval]
    /\ callers' = [callers EXCEPT ![c].pc = "return",
                                  ![c].during = @ \cup InProgress(c)]
    /\ UNCHANGED <<opVars, decVars, cfg>>

\* return &rvalfiltered, nil: the caller has the result, the locals are
\* gone
Returns(c) ==
    /\ callers[c].pc = "return"
    /\ frames' = [frames EXCEPT ![Frame(c, callers[c].op)] =
                                    Locals(callers[c].op)]
    /\ callers' =
        [callers EXCEPT
            ![c].pc = "returned",
            ![c].during = @ \cup InProgress(c),
            ![c].ret = [resp |->
                            Resp(frames[Frame(c, callers[c].op)].rvalfiltered),
                        err |-> NilErr]]
    /\ UNCHANGED <<opVars, decVars, cfg>>

\* the goroutine is done with the result
Release(c) ==
    /\ callers[c].pc = "returned"
    /\ callers' = [callers EXCEPT ![c] = Idle]
    /\ UNCHANGED <<frames, opVars, decVars, cfg>>

----------------------------------------------------------------------------
(* Config.FromEnv and Config.FromFile of package edgegrid. Their code is  *)
(* not part of the sources at hand; TestConfig_FromEnv and                *)
(* TestConfig_FromFile are, and the two functions are written down here   *)
(* as those tests expect them to behave. A value of an option is a        *)
(* sequence of characters. An environment maps the names of the variables *)
(* that are set to their values; a file system maps the paths of the      *)
(* files that exist to their sections, each mapping the options it has to *)
(* their values.                                                          *)

\* the MaxBody a Config gets when none is configured
MaxBodySize == 131072

\* a faulty FromEnv that reads AKAMAI_<OPTION> whatever the section
FromEnvMut(section, env) ==
    LET name == [Host |-> "AKAMAI_HOST", ClientToken |-> "AKAMAI_CLIENT_TOKEN",
                 ClientSecret |-> "AKAMAI_CLIENT_SECRET",
                 AccessToken |-> "AKAMAI_ACCESS_TOKEN"]
    IN  IF \E f \in DOMAIN name : name[f] \notin DOMAIN env
        THEN [err |-> "ErrRequiredOptionEnv", out |-> <<>>]
        ELSE IF env[name.Host][Len(env[name.Host])] = "/"
        THEN [err |-> "ErrHostContainsSlashAtTheEnd", out |-> <<>>]
        ELSE [err |-> "",
              out |-> [Host |-> env[name.Host],
                       ClientToken |-> env[name.ClientToken],
                       ClientSecret |-> env[name.ClientSecret],
                       AccessToken |-> env[name.AccessToken],
                       MaxBody |-> MaxBodySize]]

\* (c *Config) FromEnv(section): the error ("" is nil) and, without one,
\* the Config
FromEnv(section, env) ==
    LET upper == [default |-> "DEFAULT", test |-> "TEST"]
        prefix == IF section = "default" THEN "AKAMAI"
                  ELSE "AKAMAI_" \o upper[section]
        name == [Host |-> prefix \o "_HOST",
                 ClientToken |-> prefix \o "_CLIENT_TOKEN",
                 ClientSecret |-> prefix \o "_CLIENT_SECRET",
                 AccessToken |-> prefix \o "_ACCESS_TOKEN",
                 MaxBody |-> "AKAMAI_MAX_BODY"]
        digit == [d \in {Digit[n] : n \in 1..10} |->
                    (CHOOSE n \in 1..10 : Digit[n] = d) - 1]
        atoi[i \in 0..8] ==
            IF i = 0 THEN 0
            ELSE 10 * atoi[i - 1] + digit[env[name.MaxBody][i]]
    IN  IF \E f \in {"Host", "ClientToken", "ClientSecret", "AccessToken"} :
                name[f] \notin DOMAIN env
        THEN [err |-> "ErrRequiredOptionEnv", out |-> <<>>]
        ELSE IF env[name.Host] # <<>>
                /\ env[name.Host][Len(env[name.Host])] = "/"
        THEN [err |-> "ErrHostContainsSlashAtTheEnd", out |-> <<>>]
        ELSE [err |-> "",
              out |-> [Host |-> env[name.Host],
                       ClientToken |-> env[name.ClientToken],
                       ClientSecret |-> env[name.ClientSecret],
                       AccessToken |-> env[name.AccessToken],
                       MaxBody |->
                            IF name.MaxBody \in DOMAIN env
                            THEN atoi[Len(env[name.MaxBody])]
                            ELSE MaxBodySize]]

\* a faulty FromFile that takes the host as it stands
FromFileMut(fs, file, section) ==
    LET need == {"host", "client_token", "client_secret", "access_token"}
    IN  IF file \notin DOMAIN fs
        THEN [err |-> "ErrLoadingFile", out |-> <<>>]
        ELSE IF section \notin DOMAIN fs[file]
        THEN [err |-> "ErrSectionDoesNotExist", out |-> <<>>]
        ELSE IF \E o \in need : o \notin DOMAIN fs[file][section]
        THEN [err |-> "ErrRequiredOptionEdgerc", out |-> <<>>]
        ELSE [err |-> "",
              out |-> [Host |-> fs[file][section].host,
                       ClientToken |-> fs[file][section].client_token,
                       ClientSecret |-> fs[file][section].client_secret,
                       AccessToken |-> fs[file][section].access_token,
                       MaxBody |-> MaxBodySize]]

\* (c *Config) FromFile(file, section): the error ("" is nil) and, without
\* one, the Config
FromFile(fs, file, section) ==
    LET need == {"host", "client_token", "client_secret", "access_token"}
    IN  IF file \notin DOMAIN fs
        THEN [err |-> "ErrLoadingFile", out |-> <<>>]
        ELSE IF section \notin DOMAIN fs[file]
        THEN [err |-> "ErrSectionDoesNotExist", out |-> <<>>]
        ELSE IF \E o \in need : o \notin DOMAIN fs[file][section]
        THEN [err |-> "ErrRequiredOptionEdgerc", out |-> <<>>]
        ELSE IF fs[file][section].host # <<>>
                /\ fs[file][section].host[Len(fs[file][section].host)] = "/"
        THEN [err |-> "ErrHostContainsSlashAtTheEnd", out |-> <<>>]
        ELSE [err |-> "",
              out |-> [Host |-> fs[file][section].host,
                       ClientToken |-> fs[file][section].client_token,
                       ClientSecret |-> fs[file][section].client_secret,
                       AccessToken |-> fs[file][section].access_token,
                       MaxBody |-> MaxBodySize]]

\* cfg := Config{}
NewConfig ==
    /\ cfg.fn # ""
    /\ cfg' = [fn |-> "", section |-> "", env |-> <<>>, fs |-> <<>>,
               file |-> "", err |-> "", out |-> <<>>]
    /\ UNCHANGED <<opVars, decVars, callers, frames>>

\* the options set, as the tests set them: the four required ones but for
\* some, a host with a slash at the end only when the other three are
\* there
ConfigOptions ==
    LET value == [host |-> <<"h">>, client_token |-> <<"t">>,
                  client_secret |-> <<"s">>, access_token |-> <<"a">>]
        all == DOMAIN value
    IN  {[o \in set |-> value[o]] : set \in SUBSET all}
            \cup {[value EXCEPT !.host = <<"h", "/">>]}

\* cfg.FromEnv(section), in an environment that sets the variables of one
\* prefix; AKAMAI_MAX_BODY is set in some
ConfigFromEnv ==
    /\ cfg.fn = ""
    /\ \E section \in {"default", "test"}, prefix \in {"AKAMAI", "AKAMAI_TEST"},
          opts \in ConfigOptions, body \in {<<>>, <<"1", "2", "3">>} :
        LET option == [host |-> "_HOST", client_token |-> "_CLIENT_TOKEN",
                       client_secret |-> "_CLIENT_SECRET",
                       access_token |-> "_ACCESS_TOKEN"]
            set == {prefix \o option[o] : o \in DOMAIN opts}
            names == IF body # <<>> THEN set \cup {"AKAMAI_MAX_BODY"} ELSE set
            env == [n \in names |->
                        IF n \in set
                        THEN opts[CHOOSE o \in DOMAIN opts :
                                        prefix \o option[o] = n]
                        ELSE body]
            r == FromEnv(section, env)
        IN  cfg' = [fn |-> "FromEnv", section |-> section, env |-> env,
                    fs |-> <<>>, file |-> "", err |-> r.err, out |-> r.out]
    /\ UNCHANGED <<opVars, decVars, callers, frames>>

\* cfg.FromFile(file, section), with test/edgerc there or not; the file
\* has a section "test"
ConfigFromFile ==
    /\ cfg.fn = ""
    /\ \E file \in {"test/edgerc", "test/test"}, section \in {"test", "abc"},
          there \in BOOLEAN, opts \in ConfigOptions :
        LET content == [s \in {"test"} |-> opts]
            fs == [f \in (IF there THEN {"test/edgerc"} ELSE {}) |-> content]
            r == FromFile(fs, file, section)
        IN  cfg' = [fn |-> "FromFile", section |-> section, env |-> <<>>,
                    fs |-> fs, file |-> file, err |-> r.err, out |-> r.out]
    /\ UNCHANGED <<opVars, decVars, callers, frames>>

----------------------------------------------------------------------------
(* Specifications. *)

Init ==
    /\ op = ""
    /\ params = <<>>
    /\ reqType = ""
    /\ ctx = "live"
    /\ verr = {}
    /\ trace = <<>>
    /\ sent = NoReq
    /\ exec = NoAnswer
    /\ rval = <<>>
    /\ ret = [resp |-> NilResp, err |-> NilErr]
    /\ recvID = ""
    /\ recvName = <<>>
    /\ dec = NoDec
    /\ callers = [c \in Callers |-> Idle]
    /\ frames = [f \in Callers \X {"GetAttackGroups", "GetMatchTargets"} |-> Locals(f[2])]
    /\ cfg = [fn |-> "", section |-> "", env |-> <<>>, fs |-> <<>>,
              file |-> "", err |-> "", out |-> <<>>]

Next ==
    \/ GetAttackGroup
    \/ GetAttackGroups
    \/ UpdateAttackGroup
    \/ GetCustomDeny
    \/ GetCustomDenyList
    \/ UpdateCustomDeny
    \/ CreateCustomDeny
    \/ RemoveCustomDeny
    \/ GetMatchTarget
    \/ GetMatchTargets
    \/ UpdateMatchTarget
    \/ CreateMatchTarget
    \/ RemoveMatchTarget
    \/ GetReputationAnalysis
    \/ UpdateReputationAnalysis
    \/ RemoveReputationAnalysis
    \/ GetReputationProfile
    \/ GetReputationProfiles
    \/ UpdateReputationProfile
    \/ CreateReputationProfile
    \/ RemoveReputationProfile
    \/ GetConfigurationClone
    \/ CreateConfigurationClone
    \/ GetVersionNotes
    \/ UpdateVersionNotes
    \/ GetApiHostnameCoverageOverlapping
    \/ ValidateRequest
    \/ NextCall

\* the operations of the client, called one after another
Spec == Init /\ [][Next]_vars

NextDecode ==
    \/ NewReceivers
    \/ UnmarshalCustomDenyID
    \/ UnmarshalAtomicConditionsName

\* the decoders, called one after another on the same receivers
SpecDecode == Init /\ [][NextDecode]_vars

NextConcurrent ==
    \E c \in Callers :
        \/ Invoke(c)
        \/ Answered(c)
        \/ Range(c)
        \/ Assign(c)
        \/ Returns(c)
        \/ Release(c)

\* goroutines calling the list operations of one client side by side
SpecConcurrent == Init /\ [][NextConcurrent]_vars

NextConfig ==
    \/ NewConfig
    \/ ConfigFromEnv
    \/ ConfigFromFile

\* Config values filled from the environment and from files
SpecConfig == Init /\ [][NextConfig]_vars

----------------------------------------------------------------------------
(* Properties. *)

\* the call took the step
Took(step) == \E i \in 1..Len(trace) : trace[i] = step

\* a call of one of the operations has returned
Called == op \notin {"", "Validate"}

\* a value is the zero value of its Go type
IsZero(value, type) == IF type = "int" THEN value = 0 ELSE value = ""

\* the request misses one of the fields its Validate method requires
MissesRequired ==
    \E r \in Rules(reqType) : IsZero(Field(params, r.path), r.type)

\* C1: in every operation a request that misses a required field is
\* answered with a nil response and a validation error, and p.Exec is not
\* called
C1_ValidationPrecedesExec ==
    (Called /\ MissesRequired) =>
        /\ ret.resp.nil
        /\ ErrorsIs(ret.err, ErrStructValidation)
        /\ ~Took("Exec")

\* the success statuses of an HTTP method, as the specification gives them
SuccessSet(method) ==
    CASE method = "GET" -> {200}
      [] method \in {"POST", "PUT"} -> {200, 201}
      [] method = "DELETE" -> {200, 204}

ListOps ==
    {"GetAttackGroups", "GetCustomDenyList", "GetReputationProfiles",
     "GetMatchTargets"}

\* the list operation was called with a filter value
Filtering ==
    CASE op = "GetAttackGroups" -> params.Group # ""
      [] op = "GetCustomDenyList" -> params.ID # ""
      [] op = "GetReputationProfiles" -> params.ReputationProfileId # 0
      [] op = "GetMatchTargets" -> params.TargetID # 0
      [] OTHER -> FALSE

\* the response body decoded into the operation's response type: what
\* p.Exec leaves in the value it is given, the zero value when it is given
\* none or the status carries no body
Decoded ==
    IF sent.out # "nil" /\ Decodes(exec.status)
    THEN Unmarshal(op \o "Response", exec.body)
    ELSE Zero(op \o "Response")

\* C2: when p.Exec returned a response, the operation succeeds exactly on
\* the success statuses of its HTTP method (GET: 200; POST, PUT: 200, 201;
\* DELETE: 200, 204): it then returns the decoded response and a nil error
\* (a list operation called with a filter returns a response too), and on
\* any other status a nil response and p.Error(resp)
C2_StatusDecidesOutcome ==
    (Called /\ Took("Exec") /\ exec.fault = "") =>
        IF exec.status \in SuccessSet(sent.method)
        THEN /\ ret.err = NilErr
             /\ ~ret.resp.nil
             /\ ~Filtering => ret.resp.val = Decoded
        ELSE /\ ret.resp.nil
             /\ ret.err = Error(exec.status)

\* GetAttackGroup answered 200 with {"action":"deny"} returned Action "deny"
C2_Witness ==
    /\ op = "GetAttackGroup"
    /\ Took("Exec")
    /\ exec.fault = ""
    /\ exec.status = 200
    /\ exec.body.action = "deny"
    /\ ret.err = NilErr
    /\ ret.resp.val.Action = "deny"

\* C3: Validate returns an error exactly when one of the fields the request
\* type requires has the zero value of its type
C3_ValidateIffMissing ==
    (op # "" /\ Took("Validate")) => (verr # {} <=> MissesRequired)

\* GetCustomDenyRequest with only the ID missing is rejected
C3_Witness ==
    /\ op = "Validate"
    /\ reqType = "GetCustomDenyRequest"
    /\ params.ConfigID # 0
    /\ params.Version # 0
    /\ params.ID = ""
    /\ verr # {}

\* C4: the validation error names every missing required field by the name
\* of the struct field
C4_ErrorNamesField ==
    (op # "" /\ Took("Validate")) =>
        \A r \in Rules(reqType) :
            IsZero(Field(params, r.path), r.type) => FieldName(r.path) \in verr

\* C5: no request reaches p.Exec with a path parameter at its zero value
C5_NoZeroPathParameter ==
    (Called /\ Took("Exec")) =>
        \A i \in 1..Len(sent.url.path) :
            LET piece == sent.url.path[i]
            IN  /\ ~(piece.k = "d" /\ piece.v = "0")
                /\ ~(piece.k = "s" /\ piece.v = "")

\* C6: when p.Exec returns a transport error, the operation returns a nil
\* response and an error that wraps it
C6_TransportErrorWrapped ==
    (Called /\ Took("Exec") /\ exec.fault # "") =>
        /\ ret.resp.nil
        /\ ErrorsIs(ret.err, exec.fault)

\* C7: customDenyID decoded from a JSON number is the number's decimal
\* string, the value the JSON string of these digits decodes to
C7_NumberDecodesToDecimal ==
    (dec.fn = "customDenyID" /\ dec.data.kind = "number") =>
        /\ dec.err = ""
        /\ recvID = Itoa(dec.data.num)
        /\ recvID =
            CustomDenyIDUnmarshalJSON("", JString(Itoa(dec.data.num))).c

\* every element of the JSON array is a string
AllStrings(elems) == \A i \in 1..Len(elems) : elems[i].kind = "string"

\* C8: customDenyID decoded from a JSON string is that string; a zero
\* atomicConditionsName decoded from a JSON string s is [s], and from an
\* array of strings the same strings in the same order
C8_StringsPreserved ==
    /\ (dec.fn = "customDenyID" /\ dec.data.kind = "string") =>
            (dec.err = "" /\ recvID = dec.data.str)
    /\ (dec.fn = "atomicConditionsName" /\ dec.beforeName = <<>>
            /\ dec.data.kind = "string") =>
            (dec.err = "" /\ ~dec.panicked /\ recvName = <<dec.data.str>>)
    /\ (dec.fn = "atomicConditionsName" /\ dec.beforeName = <<>>
            /\ dec.data.kind = "array" /\ AllStrings(dec.data.elems)) =>
            /\ dec.err = ""
            /\ ~dec.panicked
            /\ Len(recvName) = Len(dec.data.elems)
            /\ \A i \in 1..Len(recvName) : recvName[i] = dec.data.elems[i].str

\* ["a","b"] decoded into a zero atomicConditionsName
C8_Witness ==
    /\ dec.fn = "atomicConditionsName"
    /\ dec.beforeName = <<>>
    /\ dec.data = JArray(<<JString("a"), JString("b")>>)
    /\ recvName = <<"a", "b">>

\* C9: for null, an object or a boolean (and for customDenyID an array) the
\* decoders return a nil error and leave a zero receiver at its zero value
C9_OtherKindsIgnored ==
    /\ (dec.fn = "customDenyID" /\ dec.beforeID = ""
            /\ dec.data.kind \in {"null", "object", "bool", "array"}) =>
            (dec.err = "" /\ ~dec.panicked /\ recvID = "")
    /\ (dec.fn = "atomicConditionsName" /\ dec.beforeName = <<>>
            /\ dec.data.kind \in {"null", "object", "bool"}) =>
            (dec.err = "" /\ ~dec.panicked /\ recvName = <<>>)

\* an object decoded into a zero customDenyID
C9_Witness ==
    /\ dec.fn = "customDenyID"
    /\ dec.beforeID = ""
    /\ dec.data = JObject
    /\ dec.err = ""
    /\ recvID = ""

\* the entries of a list whose field has the value, in the list's order
RECURSIVE Matching(_, _, _)
Matching(list, field, value) ==
    IF list = <<>> THEN <<>>
    ELSE IF Head(list)[field] = value
    THEN <<Head(list)>> \o Matching(Tail(list), field, value)
    ELSE Matching(Tail(list), field, value)

\* C10: a list operation called with a filter value and answered 200
\* returns exactly the fetched entries whose identifying field has that
\* value, in their order and with their multiplicity, and a nil error;
\* the list is empty when none matches
C10_FilterKeepsMatching ==
    (Called /\ op \in ListOps /\ Filtering /\ Took("Exec") /\ exec.fault = ""
        /\ exec.status = 200) =>
        /\ ret.err = NilErr
        /\ ~ret.resp.nil
        /\ CASE op = "GetAttackGroups" ->
                    ret.resp.val.AttackGroups =
                        Matching(rval.AttackGroups, "Group", params.Group)
             [] op = "GetCustomDenyList" ->
                    ret.resp.val.CustomDenyList =
                        Matching(rval.CustomDenyList, "ID", params.ID)
             [] op = "GetReputationProfiles" ->
                    ret.resp.val.ReputationProfiles =
                        Matching(rval.ReputationProfiles, "ID",
                                 params.ReputationProfileId)
             [] op = "GetMatchTargets" ->
                    /\ ret.resp.val.MatchTargets.WebsiteTargets =
                        Matching(rval.MatchTargets.WebsiteTargets, "TargetID",
                                 params.TargetID)
                    /\ ret.resp.val.MatchTargets.APITargets =
                        Matching(rval.MatchTargets.APITargets, "TargetID",
                                 params.TargetID)

\* GetAttackGroups by group XSS on a list of two XSS entries and another
C10_Witness ==
    /\ op = "GetAttackGroups"
    /\ params.Group = "XSS"
    /\ exec.status = 200
    /\ Len(rval.AttackGroups) = 2
    /\ rval.AttackGroups[1].Group = "SQL"
    /\ rval.AttackGroups[2].Group = "XSS"
    /\ ret.err = NilErr
    /\ ret.resp.val.AttackGroups = <<rval.AttackGroups[2]>>

\* C11: a list operation called without a filter value and answered 200
\* returns the full fetched list, the entries of the decoded body in
\* their order, and a nil error
C11_NoFilterKeepsAll ==
    (Called /\ op \in ListOps /\ ~Filtering /\ Took("Exec")
        /\ exec.fault = "" /\ exec.status = 200) =>
        /\ ret.err = NilErr
        /\ ~ret.resp.nil
        /\ ret.resp.val = rval
        /\ rval = Unmarshal(op \o "Response", exec.body)

\* GetMatchTargets without a target ID on two website targets and an API
\* target
C11_Witness ==
    /\ op = "GetMatchTargets"
    /\ params.TargetID = 0
    /\ exec.fault = ""
    /\ exec.status = 200
    /\ Len(rval.MatchTargets.WebsiteTargets) = 2
    /\ Len(rval.MatchTargets.APITargets) = 1
    /\ ret.err = NilErr
    /\ ret.resp.val = rval

\* C12: every request handed to p.Exec with a body argument carries the
\* header Content-Type: application/json
C12_BodyHasContentType ==
    (Called /\ Took("Exec") /\ sent.in # NoBody) =>
        sent.contentType = "application/json"

\* the HTTP method of an operation's lifecycle role
RoleMethod(name) ==
    CASE name \in {"CreateCustomDeny", "CreateMatchTarget",
                   "CreateReputationProfile", "CreateConfigurationClone"} ->
            "POST"
      [] name \in {"UpdateAttackGroup", "UpdateCustomDeny",
                   "UpdateMatchTarget", "UpdateReputationAnalysis",
                   "UpdateReputationProfile", "UpdateVersionNotes"} -> "PUT"
      [] name \in {"RemoveCustomDeny", "RemoveMatchTarget",
                   "RemoveReputationProfile", "RemoveReputationAnalysis"} ->
            "DELETE"
      [] OTHER -> "GET"

\* C13: every Get and list operation issues GET, every Create operation
\* POST, every Update operation PUT and every Remove operation DELETE
C13_MethodOfRole ==
    (Called /\ Took("Exec")) => sent.method = RoleMethod(op)

\* how often the call took the step
Count(step) == Cardinality({i \in 1..Len(trace) : trace[i] = step})

\* a string parameter of the request makes url.Parse fail
BadEscape ==
    \E f \in DOMAIN params \cap {"PolicyID", "ID", "Group"} :
        params[f] \in {"%zz"}

\* C14: no call invokes p.Exec more than once, and a call whose request
\* passed validation and was constructed invokes it exactly once, whatever
\* p.Exec answers
C14_ExecOnce ==
    Called =>
        /\ Count("Exec") <= 1
        /\ (verr = {} /\ ~BadEscape) => Count("Exec") = 1

\* UpdateReputationProfile whose p.Exec failed with a transport error made
\* one call
C14_Witness ==
    /\ op = "UpdateReputationProfile"
    /\ verr = {}
    /\ exec.fault = ErrNoSuchHost
    /\ Count("Exec") = 1
    /\ ret.resp.nil

\* C15: a call with a context that is already cancelled returns an error
\* without invoking p.Exec
C15_CancelledAbortsBeforeExec ==
    (Called /\ ctx = "canceled") => (~Took("Exec") /\ ret.err # NilErr)

RawPayloadOps ==
    {"UpdateCustomDeny", "CreateCustomDeny", "CreateMatchTarget",
     "UpdateMatchTarget", "CreateReputationProfile", "UpdateReputationProfile"}

\* C16: UpdateCustomDeny, CreateCustomDeny, CreateMatchTarget,
\* UpdateMatchTarget, CreateReputationProfile and UpdateReputationProfile
\* hand the caller's JsonPayloadRaw to p.Exec as the body, unchanged, and
\* on a status 500 return a nil response and p.Error(resp)
C16_RawPayloadPassedThrough ==
    (Called /\ op \in RawPayloadOps /\ Took("Exec")) =>
        /\ sent.in = RawBody(params.JsonPayloadRaw)
        /\ (exec.fault = "" /\ exec.status = 500) =>
                (ret.resp.nil /\ ret.err = Error(500))

\* UpdateCustomDeny answered 500 after sending the caller's payload
C16_Witness ==
    /\ op = "UpdateCustomDeny"
    /\ params.JsonPayloadRaw = "{\"name\":\"n\"}"
    /\ sent.in.kind = "raw"
    /\ sent.in.raw = "{\"name\":\"n\"}"
    /\ exec.fault = ""
    /\ exec.status = 500
    /\ ret.resp.nil
    /\ ret.err = Error(500)

\* C17: on every return the response is non-nil exactly when the error is
\* nil
C17_ResponseXorError ==
    Called => (~ret.resp.nil <=> ret.err = NilErr)

\* GetAttackGroups with a filter answered 404 after nothing was filtered
C17_Witness ==
    /\ op = "GetAttackGroups"
    /\ params.Group = "XSS"
    /\ exec.fault = ""
    /\ exec.status = 404
    /\ ret.resp.nil
    /\ ret.err # NilErr

\* the step the call ended on
LastStep == trace[Len(trace)]

\* C18: the returned error wraps ErrStructValidation exactly when the
\* request failed the Validate call; an error of request construction or
\* of p.Exec is a fmt.Errorf value that does not wrap ErrStructValidation,
\* never the value of p.Error; the value of p.Error(resp) is returned
\* exactly when p.Exec returned without error and the status check failed
C18_ErrorKindsDistinct ==
    Called =>
        /\ ErrorsIs(ret.err, ErrStructValidation) <=> verr # {}
        /\ (verr = {} /\ (LastStep \in {"url.Parse", "NewRequest"}
                            \/ (Took("Exec") /\ exec.fault # ""))) =>
                /\ ret.err.type = "wrapError"
                /\ ~ErrorsIs(ret.err, ErrStructValidation)
        /\ ret.err.type = "apiError" <=>
                (Took("Exec") /\ exec.fault = "" /\ Took("Error"))
        /\ ret.err.type = "apiError" => ret.err = Error(exec.status)

\* RemoveMatchTarget whose p.Exec failed returned an error of its own kind
C18_Witness ==
    /\ op = "RemoveMatchTarget"
    /\ verr = {}
    /\ Took("Exec")
    /\ exec.fault = ErrNoSuchHost
    /\ ret.err.type = "wrapError"
    /\ ~ErrorsIs(ret.err, ErrStructValidation)

\* the spellings under which a message names the operation
Spellings(name) ==
    {name} \cup
    CASE name = "GetConfigurationClone" -> {"getconfigurationclone"}
      [] name = "CreateConfigurationClone" -> {"create configurationclone"}
      [] name = "GetReputationProfile" -> {"getreputationprofile"}
      [] name = "GetReputationProfiles" -> {"getreputationprofiles"}
      [] name = "CreateReputationProfile" -> {"create reputationprofile"}
      [] OTHER -> {}

\* the messages that name the operation
NamingTexts(name) ==
    UNION {{"failed to create " \o n \o " request: %w",
            "failed to create " \o n \o "request: %w",
            n \o " request failed: %w",
            n \o "request failed: %w"} : n \in Spellings(name)}

\* C19: the error returned when request construction or p.Exec fails has a
\* message that names the called operation and wraps the error that
\* occurred
C19_ErrorNamesOperation ==
    (Called /\ verr = {} /\ ret.err.type = "wrapError") =>
        /\ ret.err.text \in NamingTexts(op)
        /\ ret.err.wraps # ""

\* C20: GetApiHostnameCoverageOverlapping puts hostname=<Hostname> in the
\* query exactly when Hostname is not empty
C20_HostnameOnlyWhenGiven ==
    (op = "GetApiHostnameCoverageOverlapping" /\ Took("Exec")) =>
        IF params.Hostname = ""
        THEN \A i \in 1..Len(sent.url.query) :
                sent.url.query[i] # Lit("hostname=")
        ELSE Concat(sent.url.query) = "hostname=" \o params.Hostname

\* the configuration and the version the caller named
CallerConfigID ==
    IF "CreateFrom" \in DOMAIN params THEN params.CreateFrom.ConfigID
    ELSE params.ConfigID
CallerVersion ==
    IF "CreateFrom" \in DOMAIN params THEN params.CreateFrom.Version
    ELSE IF "ConfigVersion" \in DOMAIN params THEN params.ConfigVersion
    ELSE params.Version

\* C21: the path of every request handed to p.Exec starts with
\* /appsec/v1/configs/{configId}/versions/{version}, with the caller's
\* configuration ID and version, and a security-policies segment is
\* followed by the caller's policy ID
C21_PathPattern ==
    (Called /\ Took("Exec")) =>
        LET path == sent.url.path
        IN  /\ Len(path) >= 4
            /\ path[1] = Lit("/appsec/v1/configs/")
            /\ path[2] = D(CallerConfigID)
            /\ path[3] = Lit("/versions/")
            /\ path[4] = D(CallerVersion)
            /\ \A i \in 1..Len(path) :
                    path[i] = Lit("/security-policies/") =>
                        /\ i = 5
                        /\ Len(path) >= 6
                        /\ path[6] = S(params.PolicyID)

\* the entry's id, as the server sent it, is the requested ID
SentAs(id, want) ==
    \/ id.kind = "string" /\ id.str = want
    \/ id.kind = "number" /\ Itoa(id.num) = want

\* C25: GetCustomDenyList with an ID retains every fetched entry whose id
\* is that ID, sent as a JSON string or as a JSON number
C25_FilterIgnoresIdEncoding ==
    (op = "GetCustomDenyList" /\ params.ID # "" /\ Took("Exec")
        /\ exec.fault = "" /\ exec.status = 200) =>
        /\ ~ret.resp.nil
        /\ Len(ret.resp.val.CustomDenyList) =
            Cardinality({i \in 1..Len(exec.body.customDenyList) :
                            SentAs(exec.body.customDenyList[i].id, params.ID)})

\* C26: p.Error is invoked once when p.Exec returned without error and the
\* status is outside the success set of the operation, and not at all
\* otherwise; its value is what the operation then returns
C26_ErrorMapperExactlyOnFailure ==
    Called =>
        /\ Count("Error") =
            IF Took("Exec") /\ exec.fault = ""
                /\ exec.status \notin SuccessSet(sent.method)
            THEN 1 ELSE 0
        /\ Took("Error") => (ret.resp.nil /\ ret.err = Error(exec.status))
        /\ (verr # {} \/ exec.fault # "") => ~Took("Error")

\* UpdateVersionNotes answered 404
C26_Witness ==
    /\ op = "UpdateVersionNotes"
    /\ Took("Exec")
    /\ exec.fault = ""
    /\ exec.status = 404
    /\ Count("Error") = 1
    /\ ret.err = Error(404)

\* the strings among the elements of a JSON array, in order
RECURSIVE StringsOf(_)
StringsOf(elems) ==
    IF elems = <<>> THEN <<>>
    ELSE IF Head(elems).kind = "string"
    THEN <<Head(elems).str>> \o StringsOf(Tail(elems))
    ELSE StringsOf(Tail(elems))

\* C27: for every valid JSON text atomicConditionsName.UnmarshalJSON
\* returns a nil error without panicking, and for an array the receiver
\* then holds the array's string elements in order
C27_DecoderNeverPanics ==
    (dec.fn = "atomicConditionsName" /\ dec.data.kind # "invalid") =>
        /\ dec.err = ""
        /\ ~dec.panicked
        /\ dec.data.kind = "array" => recvName = StringsOf(dec.data.elems)

\* C28: atomicConditionsName decoded from a JSON string s holds exactly
\* [s], whatever the receiver held before
C28_DecodeIgnoresReceiver ==
    (dec.fn = "atomicConditionsName" /\ dec.data.kind = "string") =>
        recvName = <<dec.data.str>>

\* C29: GetMatchTargets with a target ID returns as website targets the
\* fetched website targets with that ID and as API targets the fetched
\* API targets with that ID, each in order
C29_TargetListsFilteredApart ==
    (op = "GetMatchTargets" /\ params.TargetID # 0 /\ Took("Exec")
        /\ exec.fault = "" /\ exec.status = 200) =>
        LET fetched ==
                Unmarshal("GetMatchTargetsResponse", exec.body).MatchTargets
            got == ret.resp.val.MatchTargets
        IN  /\ got.WebsiteTargets =
                Matching(fetched.WebsiteTargets, "TargetID", params.TargetID)
            /\ got.APITargets =
                Matching(fetched.APITargets, "TargetID", params.TargetID)
            /\ \A i \in 1..Len(got.WebsiteTargets) :
                    got.WebsiteTargets[i].TargetID = params.TargetID
            /\ \A i \in 1..Len(got.APITargets) :
                    got.APITargets[i].TargetID = params.TargetID

\* target 1 asked for; two website targets with that ID and different
\* default files are fetched and both returned, in the order fetched; of
\* the API targets 2 and 1 that are fetched, the second is returned
C29_Witness ==
    /\ op = "GetMatchTargets"
    /\ params.TargetID = 1
    /\ exec.fault = ""
    /\ exec.status = 200
    /\ Len(rval.MatchTargets.WebsiteTargets) = 2
    /\ rval.MatchTargets.WebsiteTargets[1].TargetID = 1
    /\ rval.MatchTargets.WebsiteTargets[1].DefaultFile = "b"
    /\ rval.MatchTargets.WebsiteTargets[2].TargetID = 1
    /\ rval.MatchTargets.WebsiteTargets[2].DefaultFile = "a"
    /\ Len(rval.MatchTargets.APITargets) = 2
    /\ rval.MatchTargets.APITargets[1].TargetID = 2
    /\ rval.MatchTargets.APITargets[2] = [TargetID |-> 1, Sequence |-> 1]
    /\ ret.resp.val.MatchTargets.WebsiteTargets =
            rval.MatchTargets.WebsiteTargets
    /\ ret.resp.val.MatchTargets.APITargets =
            <<[TargetID |-> 1, Sequence |-> 1]>>

\* C30: on a text that is not valid JSON both decoders return the parse
\* error and leave the receiver as it was
C30_InvalidJSONLeavesReceiver ==
    (dec.fn # "" /\ dec.data.kind = "invalid") =>
        /\ dec.err # ""
        /\ ~dec.panicked
        /\ recvID = dec.beforeID
        /\ recvName = dec.beforeName

\* invalid JSON given to an atomicConditionsName that holds an entry
C30_Witness ==
    /\ dec.fn = "atomicConditionsName"
    /\ dec.data = JInvalid
    /\ dec.beforeName # <<>>
    /\ dec.err # ""
    /\ recvName = dec.beforeName

\* what a call returns when it runs by itself: the operation run in one
\* piece on the call's arguments and the answer it was given
Alone(call) ==
    LET p == call.params
        o == Run(ListOp(call.op, p).d, p, "live", call.answer)
        result == IF call.op = "GetAttackGroups"
                  THEN GetAttackGroupsFilter(p, o.rval)
                  ELSE GetMatchTargetsFilter(p, o.rval)
    IN  IF o.err = NilErr THEN [resp |-> Resp(result), err |-> NilErr]
        ELSE [resp |-> NilResp, err |-> o.err]

\* C22: whatever the interleaving of the steps of concurrent calls (of
\* GetAttackGroups and GetMatchTargets, the operations with the most
\* local state), each call returns what it returns when run alone on the
\* same arguments and the same answer of the server
C22_CallsIndependent ==
    \A c \in Callers :
        callers[c].pc = "returned" => callers[c].ret = Alone(callers[c])

\* a GetMatchTargets call has returned a filtered list, with steps of a
\* GetAttackGroups call in between that is now in its filter loop
C22_Witness ==
    /\ callers["a"].pc = "returned"
    /\ callers["a"].op = "GetMatchTargets"
    /\ "b" \in callers["a"].during
    /\ ~callers["a"].ret.resp.nil
    /\ Len(callers["a"].answer.body.matchTargets.websiteTargets) = 2
    /\ Len(callers["a"].ret.resp.val.MatchTargets.WebsiteTargets) = 1
    /\ callers["b"].op = "GetAttackGroups"
    /\ callers["b"].pc = "range"
    /\ "a" \in callers["b"].during
    /\ frames[<<"b", "GetAttackGroups">>].k = 2
    /\ Len(frames[<<"b", "GetAttackGroups">>].rvalfiltered.AttackGroups) = 1

\* the name of an option's variable for a section
EnvName(section, option) ==
    IF section = "default" THEN "AKAMAI_" \o option
    ELSE IF section = "test" THEN "AKAMAI_TEST_" \o option
    ELSE "AKAMAI_?_" \o option

\* C23: FromEnv(section) takes HOST, CLIENT_TOKEN, CLIENT_SECRET and
\* ACCESS_TOKEN from AKAMAI_<OPTION> for the default section and from
\* AKAMAI_<SECTION>_<OPTION> otherwise; with one of them unset it returns
\* ErrRequiredOptionEnv, with a host ending in a slash
\* ErrHostContainsSlashAtTheEnd, and otherwise nil with the four values
\* in the Config and MaxBody that of AKAMAI_MAX_BODY, 131072 without it
C23_FromEnvReadsSection ==
    cfg.fn = "FromEnv" =>
        LET host == EnvName(cfg.section, "HOST")
            token == EnvName(cfg.section, "CLIENT_TOKEN")
            secret == EnvName(cfg.section, "CLIENT_SECRET")
            access == EnvName(cfg.section, "ACCESS_TOKEN")
            set == DOMAIN cfg.env
        IN  IF {host, token, secret, access} \ set # {}
            THEN cfg.err = "ErrRequiredOptionEnv"
            ELSE IF cfg.env[host][Len(cfg.env[host])] = "/"
            THEN cfg.err = "ErrHostContainsSlashAtTheEnd"
            ELSE /\ cfg.err = ""
                 /\ cfg.out.Host = cfg.env[host]
                 /\ cfg.out.ClientToken = cfg.env[token]
                 /\ cfg.out.ClientSecret = cfg.env[secret]
                 /\ cfg.out.AccessToken = cfg.env[access]
                 /\ "AKAMAI_MAX_BODY" \notin set => cfg.out.MaxBody = 131072
                 /\ ("AKAMAI_MAX_BODY" \in set
                        /\ cfg.env["AKAMAI_MAX_BODY"] = <<"1", "2", "3">>)
                        => cfg.out.MaxBody = 123

\* section "test" read from AKAMAI_TEST_*, with AKAMAI_MAX_BODY set
C23_Witness ==
    /\ cfg.fn = "FromEnv"
    /\ cfg.section = "test"
    /\ cfg.err = ""
    /\ "AKAMAI_TEST_HOST" \in DOMAIN cfg.env
    /\ cfg.out.Host = cfg.env["AKAMAI_TEST_HOST"]
    /\ "AKAMAI_MAX_BODY" \in DOMAIN cfg.env
    /\ cfg.out.MaxBody = 123

\* C24: FromFile(file, section) returns ErrLoadingFile when the file does
\* not exist, ErrSectionDoesNotExist when it has no such section,
\* ErrRequiredOptionEdgerc when the section lacks one of host,
\* client_secret, client_token and access_token,
\* ErrHostContainsSlashAtTheEnd when the host ends in a slash, and for a
\* complete section nil and a Config of its four values with MaxBody
\* 131072
C24_FromFileChecksSection ==
    cfg.fn = "FromFile" =>
        IF cfg.file \notin DOMAIN cfg.fs
        THEN cfg.err = "ErrLoadingFile"
        ELSE IF cfg.section \notin DOMAIN cfg.fs[cfg.file]
        THEN cfg.err = "ErrSectionDoesNotExist"
        ELSE LET sec == cfg.fs[cfg.file][cfg.section]
             IN  IF {"host", "client_secret", "client_token", "access_token"}
                        \ DOMAIN sec # {}
                 THEN cfg.err = "ErrRequiredOptionEdgerc"
                 ELSE IF sec.host[Len(sec.host)] = "/"
                 THEN cfg.err = "ErrHostContainsSlashAtTheEnd"
                 ELSE /\ cfg.err = ""
                      /\ cfg.out = [Host |-> sec.host,
                                    ClientToken |-> sec.client_token,
                                    ClientSecret |-> sec.client_secret,
                                    AccessToken |-> sec.access_token,
                                    MaxBody |-> 131072]

\* a host with a slash at the end, in a section that exists
C24_Witness ==
    /\ cfg.fn = "FromFile"
    /\ cfg.file \in DOMAIN cfg.fs
    /\ cfg.section \in DOMAIN cfg.fs[cfg.file]
    /\ "host" \in DOMAIN cfg.fs[cfg.file][cfg.section]
    /\ cfg.fs[cfg.file][cfg.section].host = <<"h", "/">>
    /\ cfg.err = "ErrHostContainsSlashAtTheEnd"

====
